---- MODULE Spec2Model ----
(***************************************************************************)
(* A model of the immutable collections of Arnonrgo/immutable: the List    *)
(* (slice node and 32-way trie), the Queue built on two Lists, and the     *)
(* simple, batch and sorted batch builders.                                 *)
(*                                                                         *)
(* Go objects that are reached through pointers live in two heaps: `nodes` *)
(* holds the listNode objects (slice, leaf and branch nodes) and `lists`   *)
(* holds the List structs.  An address is an index into its heap and 0 is  *)
(* the nil pointer.  Every operator that runs Go code takes the heaps as a *)
(* record M = [nodes, lists] and gives back the heaps it leaves behind, so *)
(* a write through a shared pointer is seen by every holder of it.         *)
(***************************************************************************)
EXTENDS Integers, Sequences, FiniteSets, TLC

VARIABLES
    nodes,      \* heap of listNode objects
    lists,      \* heap of List structs [root, origin, size]
    mode,       \* which program is running (chosen by Init)
    pub,        \* the lists the program holds: <<[l, ref]>>, ref the reference sequence
    nsteps,     \* number of operations performed so far
    last,       \* the last call and its outcome
    bld,        \* the builder struct of a builder program
    que,        \* the Queue struct a queue program holds
    hist        \* what the program has put in and taken out so far

vars == <<nodes, lists, mode, pub, nsteps, last, bld, que, hist>>

(***************************************************************************)
(* Constants of the source.                                                *)
(***************************************************************************)
listSliceThreshold == 32
listNodeBits == 5
listNodeSize == 2 ^ listNodeBits
listNodeMask == listNodeSize - 1

Nil == 0            \* the nil pointer
zeroT == 0          \* the zero value of the element type T (var empty T)

(***************************************************************************)
(* Integer helpers for the shifts and masks of the source.                 *)
(***************************************************************************)
\* x >> s on a Go int: arithmetic shift, i.e. floor division by 2^s.
shr(x, s) == IF x >= 0 THEN x \div (2 ^ s) ELSE -(((-x) + (2 ^ s) - 1) \div (2 ^ s))

\* x & listNodeMask on a two's complement int.
maskOf(x) == x % listNodeSize

\* (index >> (d * listNodeBits)) & listNodeMask
childIndex(index, d) == maskOf(shr(index, d * listNodeBits))

Min2(a, b) == IF a < b THEN a ELSE b
Max2(a, b) == IF a > b THEN a ELSE b

\* bits.TrailingZeros32(occupied): occupied is the set of positions of its one bits.
TrailingZeros32(occ) == IF occ = {} THEN 32 ELSE CHOOSE i \in occ : \A j \in occ : i <= j
\* bits.LeadingZeros32(occupied)
LeadingZeros32(occ) == IF occ = {} THEN 32 ELSE 31 - (CHOOSE i \in occ : \A j \in occ : i >= j)

(***************************************************************************)
(* Heap objects.                                                           *)
(***************************************************************************)
\* f[1], ..., f[Len(f)] as an explicit tuple
seqOf(f) == SubSeq(f, 1, Len(f))

reversed(s) == seqOf([i \in 1..Len(s) |-> s[Len(s) + 1 - i]])

\* n zero values
zeros(n) == IF n <= 0 THEN <<>> ELSE seqOf([i \in 1..n |-> 0])

\* the children array of a new node: listNodeSize zero values (nil pointers)
emptyChildren == zeros(listNodeSize)

\* &listLeafNode[T]{}: 32 zero values, occupied = 0
listLeafNode(children, occupied) ==
    [kind |-> "leaf", d |-> 0, children |-> children, occupied |-> occupied, elements |-> <<>>]

\* &listBranchNode[T]{d: depth}: 32 nil children
listBranchNode(d, children) ==
    [kind |-> "branch", d |-> d, children |-> children, occupied |-> {}, elements |-> <<>>]

\* &listSliceNode[T]{elements: e}
listSliceNode(elements) ==
    [kind |-> "slice", d |-> 0, children |-> <<>>, occupied |-> {}, elements |-> elements]

ListStruct(root, origin, size) == [root |-> root, origin |-> origin, size |-> size]

\* Op applied to v, for a v that is computed once and used several times
With(v, Op(_)) == Op(v)

\* Allocation: the new object gets the next address of its heap.
allocNode(M, node) == [M |-> [M EXCEPT !.nodes = Append(@, node)], n |-> Len(M.nodes) + 1]
allocList(M, lst) == [M |-> [M EXCEPT !.lists = Append(@, lst)], l |-> Len(M.lists) + 1]

isSlice(M, n) == n /= Nil /\ M.nodes[n].kind = "slice"

\* newListNode(depth)
newListNode(M, depth) ==
    IF depth = 0 THEN allocNode(M, listLeafNode(emptyChildren, {}))
    ELSE allocNode(M, listBranchNode(depth, emptyChildren))

\* listNode.depth()
nodeDepth(M, n) == M.nodes[n].d

(***************************************************************************)
(* listNode methods.  A node operator that may allocate or write returns   *)
(* [M |-> heaps afterwards, n |-> address of the returned node].           *)
(***************************************************************************)
\* How a call ends: it returns, or it panics in one of these ways.
noPanic == "none"
assertPanic == "assert"         \* the panic raised by assert
runtimePanic == "runtime"       \* nil pointer dereference, index out of range
boundsPanic == "bounds"         \* panic(fmt.Sprintf("...: index %d out of bounds", ...))

\* assert(condition, msg): panics when the condition is false
assert(condition) == IF condition THEN noPanic ELSE assertPanic

\* The value a panicking read yields (nil pointer dereference, index out of range).
panicValue == -1

\* listBranchNode.get / listLeafNode.get / listSliceNode.get
RECURSIVE listNode_get(_, _, _)
listNode_get(M, n, index) ==
    IF n = Nil THEN panicValue
    ELSE LET node == M.nodes[n] IN
         CASE node.kind = "branch" ->
                listNode_get(M, node.children[childIndex(index, node.d) + 1], index)
           [] node.kind = "leaf" -> node.children[maskOf(index) + 1]
           [] OTHER ->
                IF index >= 0 /\ index < Len(node.elements)
                THEN node.elements[index + 1] ELSE panicValue

\* listLeafNode.set that writes into the receiver whatever `mutable` says
listLeafNode_set_inplace(M, n, index, v, mutable) ==
    LET i == maskOf(index)
    IN [M |-> [M EXCEPT !.nodes[n].children[i + 1] = v,
                        !.nodes[n].occupied = @ \cup {i}],
        n |-> n]

\* listLeafNode.set
listLeafNode_set(M, n, index, v, mutable) ==
    LET idx == maskOf(index)
        a == IF mutable THEN [M |-> M, n |-> n] ELSE allocNode(M, M.nodes[n])
        other == a.n
    IN [M |-> [a.M EXCEPT !.nodes[other].children[idx + 1] = v,
                          !.nodes[other].occupied = @ \cup {idx}],
        n |-> other]

\* listSliceNode.set
listSliceNode_set(M, n, index, v, mutable) ==
    IF mutable
    THEN [M |-> [M EXCEPT !.nodes[n].elements[index + 1] = v], n |-> n]
    ELSE allocNode(M, listSliceNode([M.nodes[n].elements EXCEPT ![index + 1] = v]))

\* listBranchNode.set (and the dispatch on the node's dynamic type)
RECURSIVE listNode_set(_, _, _, _, _)
listNode_set(M, n, index, v, mutable) ==
    LET node == M.nodes[n] IN
    CASE node.kind = "leaf" -> listLeafNode_set(M, n, index, v, mutable)
      [] node.kind = "slice" -> listSliceNode_set(M, n, index, v, mutable)
      [] OTHER ->
           LET idx == childIndex(index, node.d)
               c == IF node.children[idx + 1] = Nil
                    THEN newListNode(M, node.d - 1)
                    ELSE [M |-> M, n |-> node.children[idx + 1]]
               a == IF mutable THEN [M |-> c.M, n |-> n] ELSE allocNode(c.M, node)
               other == a.n
               r == listNode_set(a.M, c.n, index, v, mutable)
           IN [M |-> [r.M EXCEPT !.nodes[other].children[idx + 1] = r.n], n |-> other]

\* containsBefore
RECURSIVE listNode_containsBefore(_, _, _)
listNode_containsBefore(M, n, index) ==
    LET node == M.nodes[n] IN
    CASE node.kind = "leaf" -> TrailingZeros32(node.occupied) < maskOf(index)
      [] node.kind = "slice" -> TRUE
      [] OTHER ->
           LET idx == childIndex(index, node.d) IN
           \/ \E i \in 0..(idx - 1) : node.children[i + 1] /= Nil
           \/ /\ node.children[idx + 1] /= Nil
              /\ listNode_containsBefore(M, node.children[idx + 1], index)

\* containsAfter
RECURSIVE listNode_containsAfter(_, _, _)
listNode_containsAfter(M, n, index) ==
    LET node == M.nodes[n] IN
    CASE node.kind = "leaf" -> (31 - LeadingZeros32(node.occupied)) > maskOf(index)
      [] node.kind = "slice" -> TRUE
      [] OTHER ->
           LET idx == childIndex(index, node.d) IN
           \/ \E i \in (idx + 1)..(listNodeSize - 1) : node.children[i + 1] /= Nil
           \/ /\ node.children[idx + 1] /= Nil
              /\ listNode_containsAfter(M, node.children[idx + 1], index)

\* listLeafNode.deleteBefore whose loop in mutable mode runs to i <= idx: the
\* slot at index is emptied too
listLeafNode_deleteBefore_through(M, n, index, mutable) ==
    LET node == M.nodes[n]
        idx == maskOf(index)
        kept == zeros(idx) \o SubSeq(node.children, idx + 1, listNodeSize)
        occ == node.occupied \ (0..(idx - 1))
    IN IF ~listNode_containsBefore(M, n, index) THEN [M |-> M, n |-> n]
       ELSE IF mutable
            THEN [M |-> [M EXCEPT !.nodes[n].children = [kept EXCEPT ![idx + 1] = zeroT],
                                  !.nodes[n].occupied = occ],
                  n |-> n]
            ELSE allocNode(M, listLeafNode(kept, occ))

\* listLeafNode.deleteBefore
listLeafNode_deleteBefore(M, n, index, mutable) ==
    LET node == M.nodes[n]
        idx == maskOf(index)
        kept == zeros(idx) \o SubSeq(node.children, idx + 1, listNodeSize)
        occ == node.occupied \ (0..(idx - 1))
    IN IF ~listNode_containsBefore(M, n, index) THEN [M |-> M, n |-> n]
       ELSE IF mutable
            THEN [M |-> [M EXCEPT !.nodes[n].children = kept, !.nodes[n].occupied = occ],
                  n |-> n]
            ELSE allocNode(M, listLeafNode(kept, occ))

\* listLeafNode.deleteAfter
listLeafNode_deleteAfter(M, n, index, mutable) ==
    LET node == M.nodes[n]
        idx == maskOf(index)
        kept == SubSeq(node.children, 1, idx + 1) \o zeros(listNodeSize - idx - 1)
        occ == node.occupied \cap (0..idx)
    IN IF ~listNode_containsAfter(M, n, index) THEN [M |-> M, n |-> n]
       ELSE IF mutable
            THEN [M |-> [M EXCEPT !.nodes[n].children = kept, !.nodes[n].occupied = occ],
                  n |-> n]
            ELSE allocNode(M, listLeafNode(kept, occ))

\* listBranchNode.deleteBefore (and the dispatch on the node's dynamic type)
RECURSIVE listNode_deleteBefore(_, _, _, _)
listNode_deleteBefore(M, n, index, mutable) ==
    LET node == M.nodes[n] IN
    CASE node.kind = "leaf" -> listLeafNode_deleteBefore(M, n, index, mutable)
      [] node.kind = "slice" -> [M |-> M, n |-> n]
      [] OTHER ->
           IF ~listNode_containsBefore(M, n, index) THEN [M |-> M, n |-> n]
           ELSE
           LET idx == childIndex(index, node.d)
               kept == zeros(idx) \o SubSeq(node.children, idx + 1, listNodeSize)
               a == IF mutable
                    THEN [M |-> [M EXCEPT !.nodes[n].children = kept], n |-> n]
                    ELSE allocNode(M, listBranchNode(node.d, kept))
               other == a.n
           IN IF kept[idx + 1] = Nil THEN a
              ELSE LET r == listNode_deleteBefore(a.M, kept[idx + 1], index, mutable)
                   IN [M |-> [r.M EXCEPT !.nodes[other].children[idx + 1] = r.n],
                       n |-> other]

\* listBranchNode.deleteAfter (and the dispatch on the node's dynamic type)
RECURSIVE listNode_deleteAfter(_, _, _, _)
listNode_deleteAfter(M, n, index, mutable) ==
    LET node == M.nodes[n] IN
    CASE node.kind = "leaf" -> listLeafNode_deleteAfter(M, n, index, mutable)
      [] node.kind = "slice" -> [M |-> M, n |-> n]
      [] OTHER ->
           IF ~listNode_containsAfter(M, n, index) THEN [M |-> M, n |-> n]
           ELSE
           LET idx == childIndex(index, node.d)
               kept == SubSeq(node.children, 1, idx + 1) \o zeros(listNodeSize - idx - 1)
               a == IF mutable
                    THEN [M |-> [M EXCEPT !.nodes[n].children = kept], n |-> n]
                    ELSE allocNode(M, listBranchNode(node.d, kept))
               other == a.n
           IN IF kept[idx + 1] = Nil THEN a
              ELSE LET r == listNode_deleteAfter(a.M, kept[idx + 1], index, mutable)
                   IN [M |-> [r.M EXCEPT !.nodes[other].children[idx + 1] = r.n],
                       n |-> other]

(***************************************************************************)
(* List methods.  An operator that returns a *List gives                   *)
(* [M |-> heaps afterwards, l |-> address of the returned List], with      *)
(* l = panicList when the call panics.                                     *)
(***************************************************************************)
panicList == -1

\* make([]T, n)
makeSlice(n) == zeros(n)

\* copy(dst, src): copies min(len(dst), len(src)) elements
copySlice(dst, src) ==
    IF Len(src) >= Len(dst) THEN SubSeq(src, 1, Len(dst))
    ELSE src \o SubSeq(dst, Len(src) + 1, Len(dst))

\* List.Len
List_Len(M, l) == M.lists[l].size

\* List.cap
List_cap(M, l) == 2 ^ (nodeDepth(M, M.lists[l].root) * listNodeBits)

\* List.Get that forgets the origin of a trie
List_Get_noOrigin(M, l, index) ==
    LET lst == M.lists[l] IN
    IF index < 0 \/ index >= lst.size THEN panicValue
    ELSE listNode_get(M, lst.root, index)

\* List.Get
List_Get(M, l, index) ==
    LET lst == M.lists[l] IN
    IF index < 0 \/ index >= lst.size THEN panicValue
    ELSE IF isSlice(M, lst.root) THEN listNode_get(M, lst.root, index)
    ELSE listNode_get(M, lst.root, lst.origin + index)

\* List.clone when ~mutable, the receiver itself when mutable
List_other(M, l, mutable) ==
    IF mutable THEN [M |-> M, l |-> l] ELSE allocList(M, M.lists[l])

\* "other.root = <the node r.n>", after the call that gave r = [M, n]
setRoot(r, l) == [M |-> [r.M EXCEPT !.lists[l].root = r.n], l |-> l]

\* List.set
List_set(M, l, index, value, mutable) ==
    LET lst == M.lists[l]
        o == List_other(M, l, mutable)
    IN IF index < 0 \/ index >= lst.size THEN [M |-> M, l |-> panicList]
       ELSE IF isSlice(M, lst.root)
       THEN setRoot(listSliceNode_set(o.M, lst.root, index, value, mutable), o.l)
       ELSE setRoot(listNode_set(o.M, lst.root, lst.origin + index, value, mutable), o.l)

\* listSliceNode.toTrie: the leaves of the chunks lo..hi of listNodeSize
\* elements, chunk c holding elements[c * listNodeSize ..]; the loop is split
\* in halves to keep the evaluation shallow
RECURSIVE toTrie_leavesIn(_, _, _, _)
toTrie_leavesIn(M, elements, lo, hi) ==
    IF lo = hi
    THEN LET i == lo * listNodeSize
             end == Min2(i + listNodeSize, Len(elements))
             chunk == SubSeq(elements, i + 1, end)
             a == allocNode(M, listLeafNode(copySlice(emptyChildren, chunk),
                                            0..(Len(chunk) - 1)))
         IN [M |-> a.M, ns |-> <<a.n>>]
    ELSE With(toTrie_leavesIn(M, elements, lo, (lo + hi) \div 2), LAMBDA left :
           IF left.ns = <<>> THEN left
           ELSE With(toTrie_leavesIn(left.M, elements, (lo + hi) \div 2 + 1, hi),
                     LAMBDA right : [M |-> right.M, ns |-> left.ns \o right.ns]))

\* listSliceNode.toTrie: the leaves, one per chunk of listNodeSize elements
toTrie_leaves(M, elements, i, leaves) ==
    IF i >= Len(elements) THEN [M |-> M, ns |-> leaves]
    ELSE With(toTrie_leavesIn(M, elements, i \div listNodeSize,
                              (Len(elements) - 1) \div listNodeSize),
              LAMBDA r : [M |-> r.M, ns |-> leaves \o r.ns])

\* listSliceNode.toTrie: one layer of parents over ns
RECURSIVE toTrie_parents(_, _, _, _, _)
toTrie_parents(M, ns, depth, i, parents) ==
    IF i >= Len(ns) THEN [M |-> M, ns |-> parents]
    ELSE LET end == Min2(i + listNodeSize, Len(ns))
             chunk == SubSeq(ns, i + 1, end)
             a == allocNode(M, listBranchNode(depth, copySlice(emptyChildren, chunk)))
         IN toTrie_parents(a.M, ns, depth, i + listNodeSize, Append(parents, a.n))

\* listSliceNode.toTrie: the loop that stacks layers until one node is left
RECURSIVE toTrie_layers(_, _, _)
toTrie_layers(M, ns, depth) ==
    IF Len(ns) > 1
    THEN LET p == toTrie_parents(M, ns, depth, 0, <<>>)
         IN toTrie_layers(p.M, p.ns, depth + 1)
    ELSE [M |-> M, n |-> ns[1]]

\* listSliceNode.toTrie that converts the first listNodeSize elements only
listSliceNode_toTrie_first(M, n) ==
    LET elements == M.nodes[n].elements
        chunk == SubSeq(elements, 1, Min2(listNodeSize, Len(elements)))
    IN allocNode(M, listLeafNode(copySlice(emptyChildren, chunk), 0..(Len(chunk) - 1)))

\* listSliceNode.toTrie
listSliceNode_toTrie(M, n) ==
    LET elements == M.nodes[n].elements IN
    IF Len(elements) = 0 THEN allocNode(M, listLeafNode(emptyChildren, {}))
    ELSE With(toTrie_leaves(M, elements, 0, <<>>),
              LAMBDA lv : toTrie_layers(lv.M, lv.ns, 1))

\* List.append without the expansion to the right: the root is kept when no
\* slots remain
List_appendTrie_nogrow(M, l, value, mutable) ==
    LET o == List_other(M, l, mutable)
        lst == o.M.lists[o.l]
    IN setRoot(listNode_set([o.M EXCEPT !.lists[o.l].size = @ + 1], lst.root,
                            lst.origin + lst.size + 1 - 1, value, mutable),
               o.l)

\* List.append, the trie part ("Standard trie-based append logic")
List_appendTrie(M, l, value, mutable) ==
    LET o == List_other(M, l, mutable)
        lst == o.M.lists[o.l]
        grow == lst.size + lst.origin >= List_cap(M, l)
        g == IF grow
             THEN LET a == allocNode(o.M, listBranchNode(nodeDepth(o.M, lst.root) + 1,
                                        [emptyChildren EXCEPT ![1] = lst.root]))
                  IN [M |-> [a.M EXCEPT !.lists[o.l].root = a.n], n |-> a.n]
             ELSE [M |-> o.M, n |-> lst.root]
    IN With(g, LAMBDA h :
           setRoot(listNode_set([h.M EXCEPT !.lists[o.l].size = @ + 1], h.n,
                                lst.origin + lst.size + 1 - 1, value, mutable),
                   o.l))

\* List.append
List_append(M, l, value, mutable) ==
    LET lst == M.lists[l] IN
    IF isSlice(M, lst.root) /\ lst.size < listSliceThreshold
    THEN LET newElements ==
                 [copySlice(makeSlice(lst.size + 1), M.nodes[lst.root].elements)
                     EXCEPT ![lst.size + 1] = value]
             o == List_other(M, l, mutable)
             a == allocNode(o.M, listSliceNode(newElements))
         IN [M |-> [a.M EXCEPT !.lists[o.l].root = a.n,
                               !.lists[o.l].size = @ + 1],
             l |-> o.l]
    ELSE With(IF isSlice(M, lst.root)
              THEN With(listSliceNode_toTrie(M, lst.root),
                        LAMBDA t : allocList(t.M, ListStruct(t.n, 0, lst.size)))
              ELSE [M |-> M, l |-> l],
              LAMBDA tempList : List_appendTrie(tempList.M, tempList.l, value, mutable))

\* List.prepend, the trie part ("Standard trie-based prepend logic")
List_prependTrie(M, l, value, mutable) ==
    LET o == List_other(M, l, mutable)
        lst == o.M.lists[o.l]
        grow == lst.origin = 0
        g == IF grow
             THEN LET d == nodeDepth(o.M, lst.root) + 1
                      a == allocNode(o.M, listBranchNode(d,
                                        [emptyChildren EXCEPT ![listNodeSize] = lst.root]))
                  IN [M |-> [a.M EXCEPT !.lists[o.l].root = a.n,
                                        !.lists[o.l].origin =
                                            @ + (listNodeSize - 1) * (2 ^ (d * listNodeBits))],
                      n |-> a.n]
             ELSE [M |-> o.M, n |-> lst.root]
    IN With(g, LAMBDA h :
         With([h.M EXCEPT !.lists[o.l].size = @ + 1, !.lists[o.l].origin = @ - 1],
              LAMBDA M2 :
                  setRoot(listNode_set(M2, h.n, M2.lists[o.l].origin, value, mutable),
                          o.l)))

\* List.prepend
List_prepend(M, l, value, mutable) ==
    LET lst == M.lists[l] IN
    IF isSlice(M, lst.root) /\ lst.size < listSliceThreshold
    THEN LET old == M.nodes[lst.root].elements
             newElements ==
                 <<value>> \o copySlice(makeSlice(lst.size), old)
             o == List_other(M, l, mutable)
             a == allocNode(o.M, listSliceNode(newElements))
         IN [M |-> [a.M EXCEPT !.lists[o.l].root = a.n,
                               !.lists[o.l].size = @ + 1],
             l |-> o.l]
    ELSE With(IF isSlice(M, lst.root)
              THEN With(listSliceNode_toTrie(M, lst.root),
                        LAMBDA t : allocList(t.M, ListStruct(t.n, 0, lst.size)))
              ELSE [M |-> M, l |-> l],
              LAMBDA tempList : List_prependTrie(tempList.M, tempList.l, value, mutable))

\* List.slice: "Contract tree while the start & end are in the same child node."
RECURSIVE List_contract(_, _)
List_contract(M, l) ==
    LET lst == M.lists[l]
        d == nodeDepth(M, lst.root)
        i == childIndex(lst.origin, d)
        j == childIndex(lst.origin + lst.size - 1, d)
    IN IF lst.root = Nil \/ d <= 1 \/ i /= j THEN M
       ELSE List_contract([M EXCEPT !.lists[l].origin = @ - i * (2 ^ (d * listNodeBits)),
                                    !.lists[l].root = M.nodes[lst.root].children[i + 1]], l)

\* List.slice that always gives a slice-backed list of the elements
List_slice_revert(M, l, start, end, mutable) ==
    LET lst == M.lists[l] IN
    IF start < 0 \/ start > lst.size \/ end < 0 \/ end > lst.size \/ start > end
    THEN [M |-> M, l |-> panicList]
    ELSE With(allocNode(M, listSliceNode(seqOf([i \in 1..(end - start) |->
                                                  List_Get(M, l, start + i - 1)]))),
              LAMBDA a : allocList(a.M, ListStruct(a.n, 0, end - start)))

\* List.slice
List_slice(M, l, start, end, mutable) ==
    LET lst == M.lists[l] IN
    IF start < 0 \/ start > lst.size \/ end < 0 \/ end > lst.size \/ start > end
    THEN [M |-> M, l |-> panicList]
    ELSE IF start = 0 /\ end = lst.size THEN [M |-> M, l |-> l]
    ELSE IF isSlice(M, lst.root)
    THEN LET newElements == SubSeq(M.nodes[lst.root].elements, start + 1, end)
             a == allocNode(M, listSliceNode(newElements))
         IN allocList(a.M, ListStruct(a.n, 0, end - start))
    ELSE LET o == List_other(M, l, mutable)
             M1 == [o.M EXCEPT !.lists[o.l].origin = lst.origin + start,
                               !.lists[o.l].size = end - start]
         IN With(List_contract(M1, o.l), LAMBDA M2 :
              LET lst2 == M2.lists[o.l]
              IN IF lst2.root = Nil THEN [M |-> M2, l |-> panicList]
                 ELSE With(listNode_deleteBefore(M2, lst2.root, lst2.origin, mutable),
                           LAMBDA b :
                               setRoot(listNode_deleteAfter(b.M, b.n,
                                           lst2.origin + lst2.size - 1, mutable),
                                       o.l)))

\* NewList: the loop "for _, value := range values { l = l.append(value, true) }"
\* over values[lo..hi], split in halves to keep the evaluation shallow
RECURSIVE NewList_appendAll(_, _, _, _, _)
NewList_appendAll(M, l, values, lo, hi) ==
    IF lo > hi THEN [M |-> M, l |-> l]
    ELSE IF lo = hi THEN List_append(M, l, values[lo], TRUE)
    ELSE LET mid == (lo + hi) \div 2
             r == NewList_appendAll(M, l, values, lo, mid)
         IN IF r.l = panicList THEN r
            ELSE NewList_appendAll(r.M, r.l, values, mid + 1, hi)

\* A Go slice as its holder sees it: the array it points into and its
\* elements.  The arrays of a call are numbered from the array of the
\* slice the call is given, which is array 0; make() gives a slice over an
\* array that no other slice points into.
sliceOver(array, elements) == [array |-> array, elements |-> elements]
argument(values) == sliceOver(0, values)

\* "newValues := values": the slice of NewList's root over the array given
NewList_newValues_alias(values) == values

\* "newValues := make([]T, len(values)); copy(newValues, values)"
NewList_newValues(values) ==
    sliceOver(values.array + 1, copySlice(makeSlice(Len(values.elements)), values.elements))

\* NewList: [M, l, aliased], aliased when the elements of the root node are
\* a slice over the array of values
NewList(M, values) ==
    IF Len(values) > listSliceThreshold
    THEN With(allocNode(M, listLeafNode(emptyChildren, {})), LAMBDA a :
           With(allocList(a.M, ListStruct(a.n, 0, 0)), LAMBDA b :
             With(NewList_appendAll(b.M, b.l, values, 1, Len(values)), LAMBDA r :
               [M |-> r.M, l |-> r.l, aliased |-> FALSE])))
    ELSE LET newValues == NewList_newValues(argument(values))
             a == allocNode(M, listSliceNode(newValues.elements))
             r == allocList(a.M, ListStruct(a.n, 0, Len(values)))
         IN [M |-> r.M, l |-> r.l, aliased |-> newValues.array = argument(values).array]

\* What a holder of the list observes: Get(0), ..., Get(Len()-1)
Obs(M, l) == seqOf([i \in 1..List_Len(M, l) |-> List_Get(M, l, i - 1)])

(***************************************************************************)
(* ListIterator.  An iterator is a local object of its caller: a record    *)
(* [list, index, stack, depth], the stack holding [node, index] elements.  *)
(***************************************************************************)
listIteratorElem(node) == [node |-> node, index |-> 0]

\* ListIterator.Done
ListIterator_Done(M, itr) == itr.index < 0 \/ itr.index >= List_Len(M, itr.list)

\* ListIterator.seek: positions the stack to the given index from the current depth
RECURSIVE ListIterator_seek(_, _, _)
ListIterator_seek(M, itr, index) ==
    IF isSlice(M, M.lists[itr.list].root) THEN itr
    ELSE LET elem == itr.stack[itr.depth + 1]
             node == M.nodes[elem.node]
             ei == childIndex(M.lists[itr.list].origin + index, node.d)
             positioned == [itr EXCEPT !.stack[itr.depth + 1].index = ei]
         IN IF node.kind = "branch"
            THEN ListIterator_seek(M,
                     [positioned EXCEPT
                         !.stack[itr.depth + 2] = listIteratorElem(node.children[ei + 1]),
                         !.depth = itr.depth + 1],
                     index)
            ELSE positioned

\* ListIterator.Seek that leaves the iterator alone on an index out of range
\* instead of panicking
ListIterator_Seek_lax(M, itr, index) ==
    IF index < 0 \/ index >= List_Len(M, itr.list)
    THEN [itr |-> itr, panic |-> noPanic]
    ELSE [itr |-> ListIterator_seek(M,
                      [itr EXCEPT !.index = index,
                                  !.stack[1] = listIteratorElem(M.lists[itr.list].root),
                                  !.depth = 0],
                      index),
          panic |-> noPanic]

\* ListIterator.Seek: [itr |-> the iterator afterwards, panic]
ListIterator_Seek(M, itr, index) ==
    IF index < 0 \/ index >= List_Len(M, itr.list)
    THEN [itr |-> itr, panic |-> boundsPanic]
    ELSE [itr |-> ListIterator_seek(M,
                      [itr EXCEPT !.index = index,
                                  !.stack[1] = listIteratorElem(M.lists[itr.list].root),
                                  !.depth = 0],
                      index),
          panic |-> noPanic]

\* ListIterator.First
ListIterator_First(M, itr) ==
    IF List_Len(M, itr.list) /= 0 THEN ListIterator_Seek(M, itr, 0).itr ELSE itr

\* ListIterator.Last
ListIterator_Last(M, itr) ==
    IF List_Len(M, itr.list) /= 0
    THEN ListIterator_Seek(M, itr, List_Len(M, itr.list) - 1).itr
    ELSE itr

\* List.Iterator
List_Iterator(M, l) ==
    ListIterator_First(M,
        [list |-> l, index |-> 0,
         stack |-> seqOf([i \in 1..32 |-> listIteratorElem(Nil)]),
         depth |-> 0])

\* ListIterator.Next without the loop that pops the stack
ListIterator_unwind_none(itr) == itr

\* ListIterator.Next: "for ; itr.depth > 0 && itr.stack[itr.depth].index >= listNodeSize-1; itr.depth-- {}"
RECURSIVE ListIterator_unwind(_)
ListIterator_unwind(itr) ==
    IF itr.depth > 0 /\ itr.stack[itr.depth + 1].index >= listNodeSize - 1
    THEN ListIterator_unwind([itr EXCEPT !.depth = itr.depth - 1])
    ELSE itr

\* ListIterator.Next: [itr |-> the iterator afterwards, index, value]
ListIterator_Next(M, itr) ==
    IF ListIterator_Done(M, itr) THEN [itr |-> itr, index |-> -1, value |-> zeroT]
    ELSE IF isSlice(M, M.lists[itr.list].root)
    THEN [itr |-> [itr EXCEPT !.index = itr.index + 1],
          index |-> itr.index,
          value |-> M.nodes[M.lists[itr.list].root].elements[itr.index + 1]]
    ELSE LET elem == itr.stack[itr.depth + 1]
             value == M.nodes[elem.node].children[elem.index + 1]
             moved == [itr EXCEPT !.index = itr.index + 1]
         IN [itr |-> IF ListIterator_Done(M, moved) THEN moved
                     ELSE With(ListIterator_unwind(moved),
                               LAMBDA u : ListIterator_seek(M, u, u.index)),
             index |-> itr.index,
             value |-> value]

\* ListIterator.Prev without the loop that pops the stack
ListIterator_unwindBack_none(itr) == itr

\* ListIterator.Prev: "for ; itr.depth > 0 && itr.stack[itr.depth].index == 0; itr.depth-- {}"
RECURSIVE ListIterator_unwindBack(_)
ListIterator_unwindBack(itr) ==
    IF itr.depth > 0 /\ itr.stack[itr.depth + 1].index = 0
    THEN ListIterator_unwindBack([itr EXCEPT !.depth = itr.depth - 1])
    ELSE itr

\* ListIterator.Prev: [itr |-> the iterator afterwards, index, value]
ListIterator_Prev(M, itr) ==
    IF ListIterator_Done(M, itr) THEN [itr |-> itr, index |-> -1, value |-> zeroT]
    ELSE IF isSlice(M, M.lists[itr.list].root)
    THEN [itr |-> [itr EXCEPT !.index = itr.index - 1],
          index |-> itr.index,
          value |-> M.nodes[M.lists[itr.list].root].elements[itr.index + 1]]
    ELSE LET elem == itr.stack[itr.depth + 1]
             value == M.nodes[elem.node].children[elem.index + 1]
             moved == [itr EXCEPT !.index = itr.index - 1]
         IN [itr |-> IF ListIterator_Done(M, moved) THEN moved
                     ELSE With(ListIterator_unwindBack(moved),
                               LAMBDA u : ListIterator_seek(M, u, u.index)),
             index |-> itr.index,
             value |-> value]

(***************************************************************************)
(* Queue.  A *Queue is nil (NilQueue) or points to a struct [front, back,  *)
(* size]; no code writes to a Queue struct after it is built, so the       *)
(* struct is kept by value.                                                *)
(***************************************************************************)
NilQueue == [isNil |-> TRUE, front |-> Nil, back |-> Nil, size |-> 0]
QueueStruct(front, back, size) ==
    [isNil |-> FALSE, front |-> front, back |-> back, size |-> size]

\* NewQueue: [M, q]
NewQueue(M, values) ==
    IF Len(values) = 0
    THEN LET f == NewList(M, <<>>)
             b == NewList(f.M, <<>>)
         IN [M |-> b.M, q |-> QueueStruct(f.l, b.l, 0)]
    ELSE With(NewList(M, values), LAMBDA f :
           With(NewList(f.M, <<>>), LAMBDA b :
             [M |-> b.M, q |-> QueueStruct(f.l, b.l, Len(values))]))

\* "buf := make([]T, len(values)); copy(buf, values)"
NewQueueOf_buf(values) ==
    sliceOver(values.array + 1, copySlice(makeSlice(Len(values.elements)), values.elements))

\* NewQueueOf: [M, q, aliased], aliased when the elements of the root node of
\* the front list are a slice over the array of values
NewQueueOf(M, values) ==
    IF Len(values) = 0
    THEN LET f == NewList(M, <<>>)
             b == NewList(f.M, <<>>)
         IN [M |-> b.M, q |-> QueueStruct(f.l, b.l, 0), aliased |-> FALSE]
    ELSE LET buf == NewQueueOf_buf(argument(values))
         IN With(NewList(M, buf.elements), LAMBDA f :
              With(NewList(f.M, <<>>), LAMBDA b :
                [M |-> b.M, q |-> QueueStruct(f.l, b.l, Len(buf.elements)),
                 aliased |-> f.aliased /\ buf.array = argument(values).array]))

\* Queue.Len
Queue_Len(q) == IF q = NilQueue THEN 0 ELSE q.size

\* Queue.Empty
Queue_Empty(q) == q = NilQueue \/ q.size = 0

\* reverseList: n rounds of the loop
\* "for !itr.Done() { _, v := itr.Next(); vals[idx] = v; idx-- }", split in
\* halves to keep the evaluation shallow; gives [itr, vals, idx]
RECURSIVE reverseList_loop(_, _, _)
reverseList_loop(M, st, n) ==
    IF n <= 0 \/ ListIterator_Done(M, st.itr) THEN st
    ELSE IF n = 1
    THEN With(ListIterator_Next(M, st.itr), LAMBDA r :
           [itr |-> r.itr, vals |-> [st.vals EXCEPT ![st.idx + 1] = r.value],
            idx |-> st.idx - 1])
    ELSE With(reverseList_loop(M, st, n \div 2), LAMBDA half :
           IF ListIterator_Done(M, half.itr) THEN half
           ELSE reverseList_loop(M, half, n - n \div 2))

\* reverseList: [M, l]
reverseList(M, l) ==
    IF l = Nil \/ List_Len(M, l) = 0 THEN NewList(M, <<>>)
    ELSE With(reverseList_loop(M, [itr |-> List_Iterator(M, l),
                                   vals |-> makeSlice(List_Len(M, l)),
                                   idx |-> List_Len(M, l) - 1],
                               List_Len(M, l)),
              LAMBDA st : NewList(M, st.vals))

\* Queue.normalize that reverses back into front and keeps the back list
Queue_normalize_keepBack(M, q) ==
    IF q = NilQueue \/ q.size = 0 THEN [M |-> M, q |-> q]
    ELSE IF q.front /= Nil /\ List_Len(M, q.front) > 0 THEN [M |-> M, q |-> q]
    ELSE IF q.back = Nil \/ List_Len(M, q.back) = 0 THEN [M |-> M, q |-> q]
    ELSE With(reverseList(M, q.back), LAMBDA f :
           [M |-> f.M, q |-> QueueStruct(f.l, q.back, q.size)])

\* Queue.normalize: [M, q]
Queue_normalize(M, q) ==
    IF q = NilQueue \/ q.size = 0 THEN [M |-> M, q |-> q]
    ELSE IF q.front /= Nil /\ List_Len(M, q.front) > 0 THEN [M |-> M, q |-> q]
    ELSE IF q.back = Nil \/ List_Len(M, q.back) = 0 THEN [M |-> M, q |-> q]
    ELSE With(reverseList(M, q.back), LAMBDA f :
           With(NewList(f.M, <<>>), LAMBDA b :
             [M |-> b.M, q |-> QueueStruct(f.l, b.l, q.size)]))

\* Queue.Peek that looks at the front list without normalizing the queue
Queue_Peek_front(M, q) ==
    IF q = NilQueue \/ q.size = 0 THEN [value |-> zeroT, ok |-> FALSE]
    ELSE IF q.front /= Nil /\ List_Len(M, q.front) > 0
    THEN [value |-> List_Get(M, q.front, 0), ok |-> TRUE]
    ELSE [value |-> zeroT, ok |-> FALSE]

\* Queue.Peek: [value, ok]
Queue_Peek(M, q) ==
    IF q = NilQueue \/ q.size = 0 THEN [value |-> zeroT, ok |-> FALSE]
    ELSE With(Queue_normalize(M, q), LAMBDA norm :
           IF norm.q.front /= Nil /\ List_Len(norm.M, norm.q.front) > 0
           THEN [value |-> List_Get(norm.M, norm.q.front, 0), ok |-> TRUE]
           ELSE [value |-> zeroT, ok |-> FALSE])

\* Queue.Enqueue that puts v at the other end of the back list
Queue_Enqueue_append(M, q, v) ==
    IF q = NilQueue
    THEN With(NewList(M, <<>>), LAMBDA f :
           With(NewList(f.M, <<v>>), LAMBDA b :
             [M |-> b.M, q |-> QueueStruct(f.l, b.l, 1)]))
    ELSE With(List_append(M, q.back, v, FALSE), LAMBDA b :
           [M |-> b.M, q |-> QueueStruct(q.front, b.l, q.size + 1)])

\* Queue.Enqueue: [M, q]
Queue_Enqueue(M, q, v) ==
    IF q = NilQueue
    THEN With(NewList(M, <<>>), LAMBDA f :
           With(NewList(f.M, <<v>>), LAMBDA b :
             [M |-> b.M, q |-> QueueStruct(f.l, b.l, 1)]))
    ELSE With(List_prepend(M, q.back, v, FALSE), LAMBDA b :
           [M |-> b.M, q |-> QueueStruct(q.front, b.l, q.size + 1)])

\* Queue.Dequeue that returns its receiver, not nil, when the queue is empty
Queue_Dequeue_same(M, q) ==
    IF q = NilQueue \/ q.size = 0
    THEN [M |-> M, next |-> q, value |-> zeroT, ok |-> FALSE]
    ELSE IF q.front /= Nil /\ List_Len(M, q.front) > 0
    THEN With(List_slice(M, q.front, 1, List_Len(M, q.front), FALSE), LAMBDA newFront :
           With(Queue_normalize(newFront.M, QueueStruct(newFront.l, q.back, q.size - 1)),
                LAMBDA nextQ :
                  [M |-> nextQ.M, next |-> nextQ.q,
                   value |-> List_Get(M, q.front, 0), ok |-> TRUE]))
    ELSE IF q.back /= Nil /\ List_Len(M, q.back) > 0
    THEN With(Queue_normalize(M, q), LAMBDA norm :
           With(List_slice(norm.M, norm.q.front, 1,
                           List_Len(norm.M, norm.q.front), FALSE),
                LAMBDA newFront :
                  [M |-> newFront.M,
                   next |-> QueueStruct(newFront.l, norm.q.back, q.size - 1),
                   value |-> List_Get(norm.M, norm.q.front, 0), ok |-> TRUE]))
    ELSE [M |-> M, next |-> q, value |-> zeroT, ok |-> FALSE]

\* Queue.Dequeue that does not normalize the queue it returns
Queue_Dequeue_lazy(M, q) ==
    IF q = NilQueue \/ q.size = 0
    THEN [M |-> M, next |-> NilQueue, value |-> zeroT, ok |-> FALSE]
    ELSE IF q.front /= Nil /\ List_Len(M, q.front) > 0
    THEN With(List_slice(M, q.front, 1, List_Len(M, q.front), FALSE), LAMBDA newFront :
           [M |-> newFront.M, next |-> QueueStruct(newFront.l, q.back, q.size - 1),
            value |-> List_Get(M, q.front, 0), ok |-> TRUE])
    ELSE IF q.back /= Nil /\ List_Len(M, q.back) > 0
    THEN With(Queue_normalize(M, q), LAMBDA norm :
           With(List_slice(norm.M, norm.q.front, 1,
                           List_Len(norm.M, norm.q.front), FALSE),
                LAMBDA newFront :
                  [M |-> newFront.M,
                   next |-> QueueStruct(newFront.l, norm.q.back, q.size - 1),
                   value |-> List_Get(norm.M, norm.q.front, 0), ok |-> TRUE]))
    ELSE [M |-> M, next |-> NilQueue, value |-> zeroT, ok |-> FALSE]

\* Queue.Dequeue: [M, next, value, ok]
Queue_Dequeue(M, q) ==
    IF q = NilQueue \/ q.size = 0
    THEN [M |-> M, next |-> NilQueue, value |-> zeroT, ok |-> FALSE]
    ELSE IF q.front /= Nil /\ List_Len(M, q.front) > 0
    THEN With(List_slice(M, q.front, 1, List_Len(M, q.front), FALSE), LAMBDA newFront :
           With(Queue_normalize(newFront.M, QueueStruct(newFront.l, q.back, q.size - 1)),
                LAMBDA nextQ :
                  [M |-> nextQ.M, next |-> nextQ.q,
                   value |-> List_Get(M, q.front, 0), ok |-> TRUE]))
    ELSE IF q.back /= Nil /\ List_Len(M, q.back) > 0
    THEN With(Queue_normalize(M, q), LAMBDA norm :
           With(List_slice(norm.M, norm.q.front, 1,
                           List_Len(norm.M, norm.q.front), FALSE),
                LAMBDA newFront :
                  [M |-> newFront.M,
                   next |-> QueueStruct(newFront.l, norm.q.back, q.size - 1),
                   value |-> List_Get(norm.M, norm.q.front, 0), ok |-> TRUE]))
    ELSE [M |-> M, next |-> NilQueue, value |-> zeroT, ok |-> FALSE]

\* QueueIterator: [q, stage, frontIdx, backIdx, index], a local object of its
\* caller; stage is 0 in the front list, 1 in the back list, -1 when done
QueueIterator_Done(itr) == itr.stage = -1

\* QueueIterator.First
QueueIterator_First(M, itr) ==
    IF itr.q = NilQueue \/ itr.q.size = 0 THEN [itr EXCEPT !.stage = -1]
    ELSE IF itr.q.front /= Nil /\ List_Len(M, itr.q.front) > 0
    THEN [itr EXCEPT !.stage = 0, !.frontIdx = 0, !.backIdx = -1, !.index = 0]
    ELSE IF itr.q.back /= Nil /\ List_Len(M, itr.q.back) > 0
    THEN [itr EXCEPT !.stage = 1, !.frontIdx = -1,
                     !.backIdx = List_Len(M, itr.q.back) - 1, !.index = 0]
    ELSE [itr EXCEPT !.stage = -1]

\* Queue.Iterator
Queue_Iterator(M, q) ==
    QueueIterator_First(M, [q |-> q, stage |-> 0, frontIdx |-> 0, backIdx |-> 0, index |-> 0])

\* QueueIterator.Next that walks the back list from its first element
QueueIterator_Next_unreversed(M, itr) ==
    IF QueueIterator_Done(itr) THEN [itr |-> itr, index |-> -1, value |-> zeroT, ok |-> FALSE]
    ELSE IF itr.stage = 0
    THEN [itr |-> IF itr.frontIdx + 1 >= List_Len(M, itr.q.front)
                  THEN IF itr.q.back /= Nil /\ List_Len(M, itr.q.back) > 0
                       THEN [itr EXCEPT !.frontIdx = @ + 1, !.index = @ + 1, !.stage = 1,
                                        !.backIdx = List_Len(M, itr.q.back) - 1]
                       ELSE [itr EXCEPT !.frontIdx = @ + 1, !.index = @ + 1, !.stage = -1]
                  ELSE [itr EXCEPT !.frontIdx = @ + 1, !.index = @ + 1],
          index |-> itr.index,
          value |-> List_Get(M, itr.q.front, itr.frontIdx),
          ok |-> TRUE]
    ELSE [itr |-> IF itr.backIdx - 1 < 0
                  THEN [itr EXCEPT !.backIdx = @ - 1, !.index = @ + 1, !.stage = -1]
                  ELSE [itr EXCEPT !.backIdx = @ - 1, !.index = @ + 1],
          index |-> itr.index,
          value |-> List_Get(M, itr.q.back, List_Len(M, itr.q.back) - 1 - itr.backIdx),
          ok |-> TRUE]

\* QueueIterator.Next: [itr |-> the iterator afterwards, index, value, ok]
QueueIterator_Next(M, itr) ==
    IF QueueIterator_Done(itr) THEN [itr |-> itr, index |-> -1, value |-> zeroT, ok |-> FALSE]
    ELSE IF itr.stage = 0
    THEN [itr |-> IF itr.frontIdx + 1 >= List_Len(M, itr.q.front)
                  THEN IF itr.q.back /= Nil /\ List_Len(M, itr.q.back) > 0
                       THEN [itr EXCEPT !.frontIdx = @ + 1, !.index = @ + 1, !.stage = 1,
                                        !.backIdx = List_Len(M, itr.q.back) - 1]
                       ELSE [itr EXCEPT !.frontIdx = @ + 1, !.index = @ + 1, !.stage = -1]
                  ELSE [itr EXCEPT !.frontIdx = @ + 1, !.index = @ + 1],
          index |-> itr.index,
          value |-> List_Get(M, itr.q.front, itr.frontIdx),
          ok |-> TRUE]
    ELSE [itr |-> IF itr.backIdx - 1 < 0
                  THEN [itr EXCEPT !.backIdx = @ - 1, !.index = @ + 1, !.stage = -1]
                  ELSE [itr EXCEPT !.backIdx = @ - 1, !.index = @ + 1],
          index |-> itr.index,
          value |-> List_Get(M, itr.q.back, itr.backIdx),
          ok |-> TRUE]

(***************************************************************************)
(* List.Contains and List.ContainsFunc (with == as the equality).          *)
(***************************************************************************)
\* n rounds of "for !itr.Done() { _, v := itr.Next(); if eq(v, value) { return true } }",
\* split in halves to keep the evaluation shallow; gives [itr, found]
RECURSIVE List_containsLoop(_, _, _, _)
List_containsLoop(M, st, value, n) ==
    IF n <= 0 \/ st.found \/ ListIterator_Done(M, st.itr) THEN st
    ELSE IF n = 1
    THEN With(ListIterator_Next(M, st.itr), LAMBDA r :
           [itr |-> r.itr, found |-> r.value = value])
    ELSE With(List_containsLoop(M, st, value, n \div 2), LAMBDA half :
           IF half.found THEN half
           ELSE List_containsLoop(M, half, value, n - n \div 2))

\* List.Contains
List_Contains(M, l, value) ==
    LET lst == M.lists[l] IN
    IF lst.size = 0 THEN FALSE
    ELSE IF isSlice(M, lst.root)
    THEN \E i \in 1..Len(M.nodes[lst.root].elements) :
             M.nodes[lst.root].elements[i] = value
    ELSE List_containsLoop(M, [itr |-> List_Iterator(M, l), found |-> FALSE],
                           value, lst.size).found

\* the equality functions a caller passes to ContainsFunc: none (nil), or ==
nilFunc == "nil"
equalFunc == "=="

\* List.ContainsFunc: [panic, value]
List_ContainsFunc(M, l, value, equal) ==
    LET lst == M.lists[l] IN
    IF lst.size = 0 THEN [panic |-> noPanic, value |-> FALSE]
    ELSE IF assert(equal /= nilFunc) /= noPanic
    THEN [panic |-> assertPanic, value |-> FALSE]
    ELSE IF isSlice(M, lst.root)
    THEN [panic |-> noPanic,
          value |-> \E i \in 1..Len(M.nodes[lst.root].elements) :
                       M.nodes[lst.root].elements[i] = value]
    ELSE [panic |-> noPanic,
          value |-> List_containsLoop(M, [itr |-> List_Iterator(M, l), found |-> FALSE],
                                      value, lst.size).found]

(***************************************************************************)
(* Builders.  A builder is a struct of the program, kept by value in the   *)
(* variable bld; the List it points to lives in the heap.  A builder call  *)
(* gives [M, b, panic, value]: the heaps and the builder struct it leaves  *)
(* behind, how it panicked ("none" when it returned) and what it returned. *)
(***************************************************************************)
returned(M, b, value) == [M |-> M, b |-> b, panic |-> noPanic, value |-> value]
panicked(M, b, kind) == [M |-> M, b |-> b, panic |-> kind, value |-> Nil]

\* "b.list = <the list r.l>", after the List call that gave r = [M, l]
setList(r, b) ==
    IF r.l = panicList THEN panicked(r.M, b, runtimePanic)
    ELSE returned(r.M, [b EXCEPT !.list = r.l], Nil)

\* NewListBuilder
NewListBuilder(M) ==
    LET r == NewList(M, <<>>) IN returned(r.M, [list |-> r.l], Nil)

\* ListBuilder.List that leaves b.list as it is
ListBuilder_List_keep(M, b) ==
    IF assert(b.list /= Nil) /= noPanic THEN panicked(M, b, assertPanic)
    ELSE returned(M, b, b.list)

\* ListBuilder.List
ListBuilder_List(M, b) ==
    IF assert(b.list /= Nil) /= noPanic THEN panicked(M, b, assertPanic)
    ELSE returned(M, [b EXCEPT !.list = Nil], b.list)

\* ListBuilder.Len
ListBuilder_Len(M, b) ==
    IF assert(b.list /= Nil) /= noPanic THEN panicked(M, b, assertPanic)
    ELSE returned(M, b, List_Len(M, b.list))

\* ListBuilder.Get
ListBuilder_Get(M, b, index) ==
    IF assert(b.list /= Nil) /= noPanic THEN panicked(M, b, assertPanic)
    ELSE IF List_Get(M, b.list, index) = panicValue THEN panicked(M, b, runtimePanic)
    ELSE returned(M, b, List_Get(M, b.list, index))

\* ListBuilder.Set
ListBuilder_Set(M, b, index, value) ==
    IF assert(b.list /= Nil) /= noPanic THEN panicked(M, b, assertPanic)
    ELSE setList(List_set(M, b.list, index, value, TRUE), b)

\* ListBuilder.Append
ListBuilder_Append(M, b, value) ==
    IF assert(b.list /= Nil) /= noPanic THEN panicked(M, b, assertPanic)
    ELSE setList(List_append(M, b.list, value, TRUE), b)

\* ListBuilder.Prepend
ListBuilder_Prepend(M, b, value) ==
    IF assert(b.list /= Nil) /= noPanic THEN panicked(M, b, assertPanic)
    ELSE setList(List_prepend(M, b.list, value, TRUE), b)

\* ListBuilder.Slice
ListBuilder_Slice(M, b, start, end) ==
    IF assert(b.list /= Nil) /= noPanic THEN panicked(M, b, assertPanic)
    ELSE setList(List_slice(M, b.list, start, end, TRUE), b)

\* ListBuilder.Iterator: the value is the position of the iterator it returns
ListBuilder_Iterator(M, b) ==
    IF assert(b.list /= Nil) /= noPanic THEN panicked(M, b, assertPanic)
    ELSE returned(M, b, List_Iterator(M, b.list).index)

\* ListBuilder.Contains
ListBuilder_Contains(M, b, value) ==
    IF assert(b.list /= Nil) /= noPanic THEN panicked(M, b, assertPanic)
    ELSE returned(M, b, List_Contains(M, b.list, value))

\* ListBuilder.ContainsFunc
ListBuilder_ContainsFunc(M, b, value) ==
    IF assert(b.list /= Nil) /= noPanic THEN panicked(M, b, assertPanic)
    ELSE returned(M, b, List_ContainsFunc(M, b.list, value, equalFunc).value)

(***************************************************************************)
(* BatchListBuilder: [list, batchSize, buffer].                            *)
(***************************************************************************)
\* NewBatchListBuilder
NewBatchListBuilder(M, batchSize) ==
    LET r == NewList(M, <<>>)
    IN returned(r.M, [list |-> r.l,
                      batchSize |-> IF batchSize <= 0 THEN 32 ELSE batchSize,
                      buffer |-> <<>>],
                Nil)

\* BatchListBuilder.Flush: "for _, value := range b.buffer { b.list = b.list.append(value, true) }"
\* over buffer[lo..hi], split in halves to keep the evaluation shallow
RECURSIVE BatchListBuilder_flushLoop(_, _, _, _)
BatchListBuilder_flushLoop(M, b, lo, hi) ==
    IF lo > hi THEN returned(M, b, Nil)
    ELSE IF lo = hi THEN setList(List_append(M, b.list, b.buffer[lo], TRUE), b)
    ELSE With(BatchListBuilder_flushLoop(M, b, lo, (lo + hi) \div 2), LAMBDA r :
           IF r.panic /= noPanic THEN r
           ELSE BatchListBuilder_flushLoop(r.M, r.b, (lo + hi) \div 2 + 1, hi))

\* BatchListBuilder.Flush that empties the buffer without committing it
BatchListBuilder_Flush_drop(M, b) == returned(M, [b EXCEPT !.buffer = <<>>], Nil)

\* BatchListBuilder.Flush
BatchListBuilder_Flush(M, b) ==
    IF Len(b.buffer) = 0 THEN returned(M, b, Nil)
    ELSE IF b.list = Nil THEN panicked(M, b, runtimePanic)
    ELSE IF isSlice(M, M.lists[b.list].root)
    THEN LET size == M.lists[b.list].size
             newLen == size + Len(b.buffer)
             base == copySlice(makeSlice(newLen), M.nodes[M.lists[b.list].root].elements)
             newElements == SubSeq(base, 1, size)
                            \o copySlice(SubSeq(base, size + 1, newLen), b.buffer)
         IN With(allocNode(M, listSliceNode(newElements)), LAMBDA a :
              returned([a.M EXCEPT !.lists[b.list].root = a.n,
                                   !.lists[b.list].size = newLen],
                       [b EXCEPT !.buffer = <<>>], Nil))
    ELSE With(BatchListBuilder_flushLoop(M, b, 1, Len(b.buffer)), LAMBDA r :
           IF r.panic /= noPanic THEN r
           ELSE returned(r.M, [r.b EXCEPT !.buffer = <<>>], Nil))

\* BatchListBuilder.Append that never flushes
BatchListBuilder_Append_keep(M, b, value) ==
    returned(M, [b EXCEPT !.buffer = Append(@, value)], Nil)

\* BatchListBuilder.Append
BatchListBuilder_Append(M, b, value) ==
    LET b2 == [b EXCEPT !.buffer = Append(@, value)]
    IN IF Len(b2.buffer) >= b2.batchSize THEN BatchListBuilder_Flush(M, b2)
       ELSE returned(M, b2, Nil)

\* BatchListBuilder.AppendSlice: "for _, value := range values { b.Append(value) }"
\* over values[lo..hi], split in halves to keep the evaluation shallow
RECURSIVE BatchListBuilder_appendRange(_, _, _, _, _)
BatchListBuilder_appendRange(M, b, values, lo, hi) ==
    IF lo > hi THEN returned(M, b, Nil)
    ELSE IF lo = hi THEN BatchListBuilder_Append(M, b, values[lo])
    ELSE With(BatchListBuilder_appendRange(M, b, values, lo, (lo + hi) \div 2),
              LAMBDA r :
                IF r.panic /= noPanic THEN r
                ELSE BatchListBuilder_appendRange(r.M, r.b, values,
                                                  (lo + hi) \div 2 + 1, hi))

\* BatchListBuilder.AppendSlice
BatchListBuilder_AppendSlice(M, b, values) ==
    BatchListBuilder_appendRange(M, b, values, 1, Len(values))

\* BatchListBuilder.Reset
BatchListBuilder_Reset(M, b) ==
    With(NewList(M, <<>>), LAMBDA r :
      returned(r.M, [b EXCEPT !.list = r.l, !.buffer = <<>>], Nil))

\* BatchListBuilder.List that leaves b.list as it is
BatchListBuilder_List_keep(M, b) ==
    With(BatchListBuilder_Flush(M, b), LAMBDA r :
      IF r.panic /= noPanic THEN r
      ELSE returned(r.M, r.b, r.b.list))

\* BatchListBuilder.List
BatchListBuilder_List(M, b) ==
    With(BatchListBuilder_Flush(M, b), LAMBDA r :
      IF r.panic /= noPanic THEN r
      ELSE returned(r.M, [r.b EXCEPT !.list = Nil], r.b.list))

\* BatchListBuilder.Len
BatchListBuilder_Len(M, b) ==
    IF b.list = Nil THEN returned(M, b, 0)
    ELSE returned(M, b, List_Len(M, b.list) + Len(b.buffer))

(***************************************************************************)
(* QueueBuilder: [q].                                                      *)
(***************************************************************************)
\* "b.q = <the queue r.q>", after the Queue call that gave r = [M, q]
setQueue(r, b) == returned(r.M, [b EXCEPT !.q = r.q], Nil)

\* NewQueueBuilder
NewQueueBuilder(M) ==
    LET r == NewQueue(M, <<>>) IN returned(r.M, [q |-> r.q], Nil)

\* QueueBuilder.Enqueue
QueueBuilder_Enqueue(M, b, v) ==
    IF assert(b.q /= NilQueue) /= noPanic THEN panicked(M, b, assertPanic)
    ELSE setQueue(Queue_Enqueue(M, b.q, v), b)

\* QueueBuilder.EnqueueSlice: "for i := range values { b.q = b.q.Enqueue(values[i]) }"
\* over values[lo..hi], split in halves to keep the evaluation shallow
RECURSIVE QueueBuilder_enqueueLoop(_, _, _, _, _)
QueueBuilder_enqueueLoop(M, b, values, lo, hi) ==
    IF lo > hi THEN returned(M, b, Nil)
    ELSE IF lo = hi THEN setQueue(Queue_Enqueue(M, b.q, values[lo]), b)
    ELSE With(QueueBuilder_enqueueLoop(M, b, values, lo, (lo + hi) \div 2), LAMBDA r :
           IF r.panic /= noPanic THEN r
           ELSE QueueBuilder_enqueueLoop(r.M, r.b, values, (lo + hi) \div 2 + 1, hi))

\* QueueBuilder.EnqueueSlice
QueueBuilder_EnqueueSlice(M, b, values) ==
    IF assert(b.q /= NilQueue) /= noPanic THEN panicked(M, b, assertPanic)
    ELSE QueueBuilder_enqueueLoop(M, b, values, 1, Len(values))

\* QueueBuilder.Len
QueueBuilder_Len(M, b) ==
    IF assert(b.q /= NilQueue) /= noPanic THEN panicked(M, b, assertPanic)
    ELSE returned(M, b, Queue_Len(b.q))

\* QueueBuilder.Queue
QueueBuilder_Queue(M, b) ==
    IF assert(b.q /= NilQueue) /= noPanic THEN panicked(M, b, assertPanic)
    ELSE returned(M, [b EXCEPT !.q = NilQueue], b.q)

(***************************************************************************)
(* Garbage collection.  The Go runtime reclaims the objects no root        *)
(* reaches, and addresses are not observable, so after every call the      *)
(* heaps are compacted: the List structs the program still holds, in the   *)
(* order of its roots, and the nodes they reach, in breadth-first order.   *)
(***************************************************************************)
\* s[i..] without nil and without repetitions, in order of first occurrence,
\* after acc
uniq(s, i, acc) ==
    LET have == {acc[k] : k \in 1..Len(acc)}
        fresh(j) == /\ s[j] /= Nil /\ s[j] \notin have
                    /\ \A k \in i..(j - 1) : s[k] /= s[j]
        at == IF i > Len(s) THEN <<>>
              ELSE SelectSeq(seqOf([j \in 1..(Len(s) - i + 1) |-> j + i - 1]), fresh)
    IN IF at = <<>> THEN acc ELSE acc \o seqOf([k \in 1..Len(at) |-> s[at[k]]])

\* the non-nil children of the nodes level[lo..hi], in order
RECURSIVE childrenIn(_, _, _, _)
childrenIn(M, level, lo, hi) ==
    IF lo > hi THEN <<>>
    ELSE IF lo = hi
    THEN IF M.nodes[level[lo]].kind = "branch"
         THEN SelectSeq(M.nodes[level[lo]].children, LAMBDA c : c /= Nil) ELSE <<>>
    ELSE childrenIn(M, level, lo, (lo + hi) \div 2)
            \o childrenIn(M, level, (lo + hi) \div 2 + 1, hi)

\* the non-nil children of the nodes level[i..], in order
childrenOf(M, level, i) == childrenIn(M, level, i, Len(level))

\* the nodes reachable from `seen`, whose last level is seen[from..]
RECURSIVE reachable(_, _, _)
reachable(M, seen, from) ==
    IF from > Len(seen) THEN seen
    ELSE LET next == uniq(childrenOf(M, SubSeq(seen, from, Len(seen)), 1), 1, seen)
         IN reachable(M, next, Len(seen) + 1)

indexIn(s, a) == IF a = Nil THEN Nil ELSE CHOOSE k \in 1..Len(s) : s[k] = a

\* a kept node with its child pointers renumbered
moveNode(keptNodes, node) ==
    IF node.kind = "branch"
    THEN listBranchNode(node.d,
             seqOf([i \in 1..listNodeSize |-> indexIn(keptNodes, node.children[i])]))
    ELSE node

\* roots: the *List pointers the program holds.  Gives the compacted heaps and
\* the new address of every kept List.
Compact(M, roots) ==
    LET keptLists == uniq(roots, 1, <<>>)
        keptNodes == reachable(M, uniq(seqOf([i \in 1..Len(keptLists) |->
                                            M.lists[keptLists[i]].root]), 1, <<>>), 1)
    IN [M |-> [nodes |-> seqOf([k \in 1..Len(keptNodes) |->
                             moveNode(keptNodes, M.nodes[keptNodes[k]])]),
               lists |-> seqOf([k \in 1..Len(keptLists) |->
                             ListStruct(indexIn(keptNodes, M.lists[keptLists[k]].root),
                                        M.lists[keptLists[k]].origin,
                                        M.lists[keptLists[k]].size)])],
        at |-> [a \in {keptLists[k] : k \in 1..Len(keptLists)} |->
                   indexIn(keptLists, a)]]

(***************************************************************************)
(* Bounds of the model.                                                    *)
(***************************************************************************)
MaxLists == 3       \* versions a list program keeps at once
RunMax == 65        \* longest run of Append (or Prepend) calls from the empty list
MaxEnq == 35        \* values a queue program puts into its queue
MaxAppends == 36    \* values a builder program puts into its builder
MaxEdits == 2       \* Prepend, Set and Slice calls of a ListBuilder program
MaxResets == 1      \* Reset calls of a BatchListBuilder program
MaxCalls == 7       \* Append, AppendSlice, Flush, Reset and List calls of such a program

(***************************************************************************)
(* The heaps as one record, before and after a step.                       *)
(***************************************************************************)
Heap == [nodes |-> nodes, lists |-> lists]

setHeap(M) == nodes' = M.nodes /\ lists' = M.lists
emptyHeap == [nodes |-> <<>>, lists |-> <<>>]

(***************************************************************************)
(* The reference: the same operations on a plain sequence.                 *)
(***************************************************************************)
RefSet(s, i, v) == [s EXCEPT ![i + 1] = v]
RefAppend(s, v) == Append(s, v)
RefPrepend(s, v) == <<v>> \o s
RefSlice(s, a, b) == SubSeq(s, a + 1, b)

Iota(n) == seqOf([i \in 1..n |-> i])

(***************************************************************************)
(* The list program.  It first builds one list, either with NewList or by  *)
(* a run l = l.Append(v) (or l = l.Prepend(v)) from the empty list, and    *)
(* then derives further versions with the immutable API, keeping every     *)
(* version it has made.                                                    *)
(***************************************************************************)
NewLens == {0, 32, 33}
DeriveAt == {64}

\* the arguments the program passes
freshValue == 100 + nsteps
IndexArgs(size) == {0, size - 1} \cap (0..(size - 1))
StartArgs(size) == {0, 1, 32} \cap (0..size)
EndArgs(size) == {0, size - 1, size} \cap (0..size)
ReadArgs(size) == {0, size - 1} \cap (0..(size - 1))

Version(l, ref, op, from, arg, obs) ==
    [l |-> l, ref |-> ref, op |-> op, from |-> from, arg |-> arg, obs |-> obs]

InitList ==
    /\ nodes = <<>>
    /\ lists = <<>>
    /\ mode \in {"new", "append", "prepend"}
    /\ pub = <<>>
    /\ nsteps = 0
    /\ last = [op |-> "none"]
    /\ bld = 0
    /\ que = NilQueue
    /\ hist = <<>>

\* the versions held, with the addresses the lists have after compaction
movedVersions(c) == [i \in 1..Len(pub) |-> [pub[i] EXCEPT !.l = c.at[@]]]
heldLists == [i \in 1..Len(pub) |-> pub[i].l]

\* l := NewList(1, ..., n)
ListNew(n) ==
    /\ pub = <<>>
    /\ mode /= "new" => n = 0
    /\ With(NewList(Heap, Iota(n)), LAMBDA r :
         With(Compact(r.M, <<r.l>>), LAMBDA c :
           /\ setHeap(c.M)
           /\ pub' = <<Version(c.at[r.l], Iota(n), IF mode = "new" THEN "new" ELSE "run", 0, n,
                               Obs(r.M, r.l))>>))
    /\ nsteps' = 0
    /\ last' = [op |-> "NewList"]
    /\ UNCHANGED <<mode, bld, que, hist>>

\* l = l.Append(v) or l = l.Prepend(v): the run that builds the first list.
\* The program keeps the list it had before the call as well, until the next call.
ListRun ==
    /\ Len(pub) = 1 /\ pub[1].op = "run" /\ nsteps < RunMax
    /\ With(IF mode = "append" THEN List_append(Heap, pub[1].l, nsteps, FALSE)
            ELSE List_prepend(Heap, pub[1].l, nsteps, FALSE), LAMBDA r :
         With(Compact(r.M, <<r.l>>), LAMBDA c :
           /\ setHeap(c.M)
           /\ pub' = <<Version(c.at[r.l],
                               IF mode = "append" THEN RefAppend(pub[1].ref, nsteps)
                               ELSE RefPrepend(pub[1].ref, nsteps),
                               "run", 0, nsteps, Obs(r.M, r.l))>>))
    /\ nsteps' = nsteps + 1
    /\ last' = [op |-> "Run"]
    /\ UNCHANGED <<mode, bld, que, hist>>

\* the program may derive a version from pub[i]
CanDerive(i) ==
    /\ i \in 1..Len(pub)
    /\ Len(pub) < MaxLists
    /\ pub[1].op = "run" => Len(pub[1].ref) \in DeriveAt

Derive(r, ref, op, i, arg) ==
    /\ r.l /= panicList
    /\ With(Compact(r.M, Append(heldLists, r.l)), LAMBDA c :
         /\ setHeap(c.M)
         /\ pub' = Append(movedVersions(c), Version(c.at[r.l], ref, op, i, arg, Obs(r.M, r.l))))
    /\ nsteps' = nsteps + 1
    /\ last' = [op |-> op]
    /\ UNCHANGED <<mode, bld, que, hist>>

\* l2 := pub[i].Set(index, v)
ListSet(i, index) ==
    /\ CanDerive(i)
    /\ Derive(List_set(Heap, pub[i].l, index, freshValue, FALSE),
              RefSet(pub[i].ref, index, freshValue), "Set", i, freshValue)

\* l2 := pub[i].Append(v)
ListAppend(i) ==
    /\ CanDerive(i)
    /\ Derive(List_append(Heap, pub[i].l, freshValue, FALSE),
              RefAppend(pub[i].ref, freshValue), "Append", i, freshValue)

\* l2 := pub[i].Prepend(v)
ListPrepend(i) ==
    /\ CanDerive(i)
    /\ Derive(List_prepend(Heap, pub[i].l, freshValue, FALSE),
              RefPrepend(pub[i].ref, freshValue), "Prepend", i, freshValue)

\* l2 := pub[i].Slice(start, end)
ListSlice(i, start, end) ==
    /\ CanDerive(i)
    /\ start <= end
    /\ Derive(List_slice(Heap, pub[i].l, start, end, FALSE),
              RefSlice(pub[i].ref, start, end), "Slice", i, <<start, end>>)

\* v := pub[i].Get(index): a reader, interleaved with the calls of the others
ListGet(i, index) ==
    /\ i \in 1..Len(pub)
    /\ last' = [op |-> "Get", value |-> List_Get(Heap, pub[i].l, index)]
    /\ UNCHANGED <<nodes, lists, mode, pub, nsteps, bld, que, hist>>

NextList ==
    \/ \E n \in NewLens : ListNew(n)
    \/ ListRun
    \/ \E i \in 1..Len(pub) :
         \/ \E index \in IndexArgs(Len(pub[i].ref)) : ListSet(i, index)
         \/ ListAppend(i)
         \/ ListPrepend(i)
         \/ \E start \in StartArgs(Len(pub[i].ref)), end \in EndArgs(Len(pub[i].ref)) :
              ListSlice(i, start, end)
         \/ \E index \in ReadArgs(Len(pub[i].ref)) : ListGet(i, index)

SpecList == InitList /\ [][NextList]_vars

(***************************************************************************)
(* Properties of the list program.                                         *)
(***************************************************************************)
rootIsTrie(l) == ~isSlice(Heap, lists[l].root)

\* C1: every list the program holds, a slice or a trie, has the length and
\* the elements it had when it was made, whatever calls of Set, Append,
\* Prepend and Slice on it or on the lists derived from it, and whatever
\* reads by the holders of those lists, have happened since.
ListPersistent ==
    mode \in {"new", "append", "prepend"} =>
        \A i \in 1..Len(pub) :
            /\ List_Len(Heap, pub[i].l) = Len(pub[i].obs)
            /\ \A k \in 1..Len(pub[i].obs) :
                  List_Get(Heap, pub[i].l, k - 1) = pub[i].obs[k]

\* a trie-rooted list from which a Set and then a Slice were derived
ListPersistentWitness ==
    /\ Len(pub) = 3
    /\ rootIsTrie(pub[1].l)
    /\ pub[2].op = "Set" /\ pub[2].from = 1
    /\ pub[3].op = "Slice" /\ pub[3].from = 1

\* C2: at every moment every list reads as the reference sequence built by
\* the same calls; Append(Prepend(c, x), y) is two longer than c, starts with
\* x and ends with y; prepending 0, 1, ..., 63 to the empty list gives a list
\* of length 64 with Get(0) = 63 and Get(63) = 0.
ListMatchesReference ==
    [](/\ \A i \in 1..Len(pub) :
             /\ List_Len(Heap, pub[i].l) = Len(pub[i].ref)
             /\ Obs(Heap, pub[i].l) = pub[i].ref
       /\ \A i \in 1..Len(pub) :
             (pub[i].op = "Append" /\ pub[pub[i].from].op = "Prepend") =>
                 LET p == pub[pub[i].from]
                     c == pub[p.from]
                 IN /\ List_Len(Heap, pub[i].l) = List_Len(Heap, c.l) + 2
                    /\ List_Get(Heap, pub[i].l, 0) = p.arg
                    /\ List_Get(Heap, pub[i].l, List_Len(Heap, pub[i].l) - 1) = pub[i].arg
       /\ (mode = "prepend" /\ Len(pub) >= 1 /\ pub[1].op = "run" /\ pub[1].arg = 63) =>
             /\ List_Len(Heap, pub[1].l) = 64
             /\ List_Get(Heap, pub[1].l, 0) = 63
             /\ List_Get(Heap, pub[1].l, 63) = 0)

\* the list made by prepending 0..63, then a Prepend and an Append of the result
ListMatchesReferenceWitness ==
    /\ mode = "prepend" /\ Len(pub) = 3
    /\ pub[1].op = "run" /\ pub[1].arg = 63
    /\ pub[2].op = "Prepend" /\ pub[2].from = 1
    /\ pub[3].op = "Append" /\ pub[3].from = 2

(***************************************************************************)
(* The reader program.  It makes one list l with NewList, replaces it up   *)
(* to MaxReaderEdits times by a list derived from it (l = l.Prepend(v),    *)
(* l = l.Slice(a, b), ...), and reads it in between: Get, Set and Slice    *)
(* with arguments in and out of range, ContainsFunc with and without an    *)
(* equality function, and iterators run forward, backward and from a Seek. *)
(* last holds the call, its arguments, how it ended and what it gave.      *)
(***************************************************************************)
MaxReaderEdits == 1     \* lists a reader program derives from its first list

ReaderLens == {0, 3, 33, 65}
ReaderIndexArgs(size) == {-1, 0, size - 1, size, size + 1}
ReaderStartArgs(size) == {-1, 0, 1, 32, size + 1}
ReaderEndArgs(size) == {-1, 0, size - 1, size, size + 1}

readerList == pub[1].l
readerSize == IF pub = <<>> THEN 0 ELSE Len(pub[1].ref)

\* what last holds: value is what Get returned, found what ContainsFunc
\* returned, entries the (index, value) pairs an iterator gave
Result(op, args, panic) ==
    [op |-> op, args |-> args, panic |-> panic, equal |-> equalFunc,
     value |-> 0, found |-> FALSE, entries |-> <<>>]

InitReader ==
    /\ nodes = <<>>
    /\ lists = <<>>
    /\ mode = "reader"
    /\ pub = <<>>
    /\ nsteps = 0
    /\ last = Result("none", <<>>, noPanic)
    /\ bld = 0
    /\ que = NilQueue
    /\ hist = <<>>

\* l := NewList(1, ..., n)
ReaderNew(n) ==
    /\ mode = "reader" /\ pub = <<>>
    /\ With(NewList(Heap, Iota(n)), LAMBDA r :
         With(Compact(r.M, <<r.l>>), LAMBDA c :
           /\ setHeap(c.M)
           /\ pub' = <<Version(c.at[r.l], Iota(n), "new", 0, n, Obs(r.M, r.l))>>))
    /\ nsteps' = 0
    /\ last' = Result("NewList", <<n>>, noPanic)
    /\ UNCHANGED <<mode, bld, que, hist>>

\* l = <the list r.l the call op(args) gave>; when the call panicked the
\* program recovers and keeps the list it had
ReaderDerive(r, ref, op, args) ==
    /\ mode = "reader" /\ Len(pub) = 1
    /\ r.l /= panicList => nsteps < MaxReaderEdits
    /\ With(Compact(r.M, <<IF r.l = panicList THEN readerList ELSE r.l>>), LAMBDA c :
         /\ setHeap(c.M)
         /\ pub' = IF r.l = panicList THEN <<[pub[1] EXCEPT !.l = c.at[@]]>>
                   ELSE <<Version(c.at[r.l], ref, op, 1, args, Obs(r.M, r.l))>>)
    /\ nsteps' = IF r.l = panicList THEN nsteps ELSE nsteps + 1
    /\ last' = Result(op, args, IF r.l = panicList THEN boundsPanic ELSE noPanic)
    /\ UNCHANGED <<mode, bld, que, hist>>

\* l = l.Set(index, v)
ReaderSet(index) ==
    /\ Len(pub) = 1
    /\ ReaderDerive(List_set(Heap, readerList, index, freshValue, FALSE),
                    IF index \in 0..(readerSize - 1)
                    THEN RefSet(pub[1].ref, index, freshValue) ELSE pub[1].ref,
                    "Set", <<index>>)

\* l = l.Append(v)
ReaderAppend ==
    /\ Len(pub) = 1
    /\ ReaderDerive(List_append(Heap, readerList, freshValue, FALSE),
                    RefAppend(pub[1].ref, freshValue), "Append", <<freshValue>>)

\* l = l.Prepend(v)
ReaderPrepend ==
    /\ Len(pub) = 1
    /\ ReaderDerive(List_prepend(Heap, readerList, freshValue, FALSE),
                    RefPrepend(pub[1].ref, freshValue), "Prepend", <<freshValue>>)

\* l = l.Slice(start, end)
ReaderSlice(start, end) ==
    /\ Len(pub) = 1
    /\ ReaderDerive(List_slice(Heap, readerList, start, end, FALSE),
                    IF 0 <= start /\ start <= end /\ end <= readerSize
                    THEN RefSlice(pub[1].ref, start, end) ELSE pub[1].ref,
                    "Slice", <<start, end>>)

\* the state after a call that only reads the list
afterReaderCall(result) ==
    /\ last' = result
    /\ UNCHANGED <<nodes, lists, mode, pub, nsteps, bld, que, hist>>

\* v := l.Get(index)
ReaderGet(index) ==
    /\ mode = "reader" /\ Len(pub) = 1
    /\ With(List_Get(Heap, readerList, index), LAMBDA v :
         afterReaderCall([Result("Get", <<index>>,
                                 IF v = panicValue THEN boundsPanic ELSE noPanic)
                             EXCEPT !.value = v]))

\* found := l.ContainsFunc(value, equal)
ReaderContainsFunc(value, equal) ==
    /\ mode = "reader" /\ Len(pub) = 1
    /\ With(List_ContainsFunc(Heap, readerList, value, equal), LAMBDA r :
         afterReaderCall([Result("ContainsFunc", <<value>>, r.panic)
                             EXCEPT !.equal = equal, !.found = r.value]))

\* n rounds of "for !itr.Done() { i, v := itr.Next(); seen = append(seen, {i, v}) }"
\* (of itr.Prev() when back), split in halves to keep the evaluation shallow;
\* gives [itr, seen]
RECURSIVE iterateLoop(_, _, _, _)
iterateLoop(M, st, n, back) ==
    IF n <= 0 \/ ListIterator_Done(M, st.itr) THEN st
    ELSE IF n = 1
    THEN With(IF back THEN ListIterator_Prev(M, st.itr) ELSE ListIterator_Next(M, st.itr),
              LAMBDA r : [itr |-> r.itr, seen |-> Append(st.seen, <<r.index, r.value>>)])
    ELSE With(iterateLoop(M, st, n \div 2, back), LAMBDA half :
              iterateLoop(M, half, n - n \div 2, back))

\* "itr := l.Iterator(); for !itr.Done() { ... itr.Next() ... }": the entries
\* seen; the loop is cut after one round more than the list has elements
forwardEntries(M, l) ==
    iterateLoop(M, [itr |-> List_Iterator(M, l), seen |-> <<>>],
                List_Len(M, l) + 1, FALSE).seen

\* "itr := l.Iterator(); itr.Last(); for !itr.Done() { ... itr.Prev() ... }"
backwardEntries(M, l) ==
    iterateLoop(M, [itr |-> ListIterator_Last(M, List_Iterator(M, l)), seen |-> <<>>],
                List_Len(M, l) + 1, TRUE).seen

ReaderForward ==
    /\ mode = "reader" /\ Len(pub) = 1
    /\ afterReaderCall([Result("Forward", <<>>, noPanic)
                            EXCEPT !.entries = forwardEntries(Heap, readerList)])

ReaderBackward ==
    /\ mode = "reader" /\ Len(pub) = 1
    /\ afterReaderCall([Result("Backward", <<>>, noPanic)
                            EXCEPT !.entries = backwardEntries(Heap, readerList)])

\* itr := l.Iterator(); itr.Seek(index); i, v := itr.Next()
ReaderSeek(index) ==
    /\ mode = "reader" /\ Len(pub) = 1
    /\ With(ListIterator_Seek(Heap, List_Iterator(Heap, readerList), index), LAMBDA s :
         IF s.panic /= noPanic
         THEN afterReaderCall(Result("Seek", <<index>>, s.panic))
         ELSE With(ListIterator_Next(Heap, s.itr), LAMBDA r :
                afterReaderCall([Result("Seek", <<index>>, noPanic)
                                    EXCEPT !.entries = <<<<r.index, r.value>>>>])))

NextReader ==
    \/ \E n \in ReaderLens : ReaderNew(n)
    \/ \E index \in ReaderIndexArgs(readerSize) : ReaderSet(index)
    \/ ReaderAppend
    \/ ReaderPrepend
    \/ \E start \in ReaderStartArgs(readerSize), end \in ReaderEndArgs(readerSize) :
          ReaderSlice(start, end)
    \/ \E index \in ReaderIndexArgs(readerSize) : ReaderGet(index)
    \/ \E value \in {1, freshValue}, equal \in {nilFunc, equalFunc} :
          ReaderContainsFunc(value, equal)
    \/ ReaderForward
    \/ ReaderBackward
    \/ \E index \in ReaderIndexArgs(readerSize) : ReaderSeek(index)

SpecReader == InitReader /\ [][NextReader]_vars

(***************************************************************************)
(* Properties of the reader program.                                       *)
(***************************************************************************)
\* the arguments of the call are outside the range the method accepts on a
\* list of the given size
outOfRange(op, args, size) ==
    CASE op \in {"Get", "Set", "Seek"} -> args[1] < 0 \/ args[1] >= size
      [] op = "Slice" -> args[1] < 0 \/ args[2] > size \/ args[1] > args[2]
      [] OTHER -> FALSE

\* C13: Get(i), Set(i, v) and ListIterator.Seek(i) with i < 0 or i >= Len(),
\* and Slice(a, b) with a < 0, b > Len() or a > b, panic, and the list is
\* as it was before the call.
OutOfRangePanics ==
    [][(mode = "reader" /\ Len(pub) = 1 /\ outOfRange(last'.op, last'.args, readerSize)) =>
          /\ last'.panic = boundsPanic
          /\ nodes' = nodes /\ lists' = lists /\ pub' = pub
          /\ Obs(Heap, readerList) = pub[1].ref]_vars

\* a Seek past the end of a trie-rooted list with a shifted origin panicked
OutOfRangePanicsWitness ==
    /\ mode = "reader" /\ Len(pub) = 1
    /\ last.op = "Seek" /\ last.args[1] = readerSize /\ last.panic = boundsPanic
    /\ rootIsTrie(readerList) /\ lists[readerList].origin /= 0

\* C14: ContainsFunc(v, equal) with a nil equal panics on every list, the
\* empty list included.
ContainsFuncNilPanics ==
    (mode = "reader" /\ last.op = "ContainsFunc" /\ last.equal = nilFunc) =>
        last.panic = assertPanic

\* C18: iterating with First() and Next() until Done() visits exactly Len()
\* entries, the k-th being (k, Get(k)); after Seek(i), Next() returns
\* (i, Get(i)).
IteratorMatchesGet ==
    (mode = "reader" /\ Len(pub) = 1) =>
        /\ last.op = "Forward" =>
              /\ Len(last.entries) = List_Len(Heap, readerList)
              /\ \A k \in 1..Len(last.entries) :
                    last.entries[k] = <<k - 1, List_Get(Heap, readerList, k - 1)>>
        /\ (last.op = "Seek" /\ last.panic = noPanic) =>
              last.entries = <<<<last.args[1], List_Get(Heap, readerList, last.args[1])>>>>

\* a full iteration of a trie-rooted list with a shifted origin and more
\* than one leaf
IteratorMatchesGetWitness ==
    /\ mode = "reader" /\ Len(pub) = 1
    /\ last.op = "Forward" /\ Len(last.entries) > listNodeSize
    /\ rootIsTrie(readerList) /\ lists[readerList].origin /= 0

\* C19: Prev() from Last() until Done() yields the entries Next() yields
\* from First(), in reverse order.
BackwardIsForwardReversed ==
    (mode = "reader" /\ Len(pub) = 1 /\ last.op = "Backward") =>
        last.entries = reversed(forwardEntries(Heap, readerList))

\* a full backward iteration of a trie-rooted list with a shifted origin and
\* more than one leaf
BackwardIsForwardReversedWitness ==
    /\ mode = "reader" /\ Len(pub) = 1
    /\ last.op = "Backward" /\ Len(last.entries) > listNodeSize
    /\ rootIsTrie(readerList) /\ lists[readerList].origin /= 0

(***************************************************************************)
(* The queue program: q starts as a nil *Queue or as NewQueue(1, ..., n),  *)
(* and the program then calls q = q.Enqueue(v), q, v, ok = q.Dequeue() and *)
(* q.Peek() in any order.  hist.enq holds the values put in, in order, and *)
(* hist.deq the values Dequeue has returned with ok, in order.             *)
(***************************************************************************)
QueueNewLens == {0, 2, 33}

InitQueue ==
    /\ nodes = <<>>
    /\ lists = <<>>
    /\ mode = "queue"
    /\ pub = <<>>
    /\ nsteps = 0
    /\ last = [op |-> "none"]
    /\ bld = 0
    /\ que = NilQueue
    /\ hist = [init |-> -1, enq |-> <<>>, deq |-> <<>>]

\* the program's queue after a call, the heaps compacted to what it reaches
holdQueue(r, q) ==
    IF q = NilQueue THEN setHeap(emptyHeap) /\ que' = NilQueue
    ELSE With(Compact(r.M, <<q.front, q.back>>), LAMBDA c :
           /\ setHeap(c.M)
           /\ que' = QueueStruct(c.at[q.front], c.at[q.back], q.size))

\* q := NewQueue(1, ..., n)
QueueNew(n) ==
    /\ last.op = "none"
    /\ With(NewQueue(Heap, Iota(n)), LAMBDA r : holdQueue(r, r.q))
    /\ hist' = [init |-> n, enq |-> Iota(n), deq |-> <<>>]
    /\ nsteps' = n
    /\ last' = [op |-> "NewQueue"]
    /\ UNCHANGED <<mode, pub, bld>>

\* q = q.Enqueue(v)
QueueEnqueue ==
    /\ nsteps < MaxEnq
    /\ With(Queue_Enqueue(Heap, que, nsteps + 1), LAMBDA r : holdQueue(r, r.q))
    /\ hist' = [hist EXCEPT !.enq = Append(@, nsteps + 1)]
    /\ nsteps' = nsteps + 1
    /\ last' = [op |-> "Enqueue", onNil |-> que.isNil]
    /\ UNCHANGED <<mode, pub, bld>>

\* q, v, ok = q.Dequeue()
QueueDequeue ==
    /\ With(Queue_Dequeue(Heap, que), LAMBDA r :
         /\ holdQueue(r, r.next)
         /\ hist' = IF r.ok THEN [hist EXCEPT !.deq = Append(@, r.value)] ELSE hist
         /\ last' = [op |-> "Dequeue", value |-> r.value, ok |-> r.ok])
    /\ UNCHANGED <<mode, pub, nsteps, bld>>

\* v, ok := q.Peek()
QueuePeek ==
    /\ With(Queue_Peek(Heap, que), LAMBDA r :
         last' = [op |-> "Peek", value |-> r.value, ok |-> r.ok])
    /\ UNCHANGED <<nodes, lists, mode, pub, nsteps, bld, que, hist>>

\* n rounds of "for !itr.Done() { idx, v, ok := itr.Next(); seen = append(seen, {idx, v, ok}) }",
\* split in halves to keep the evaluation shallow; gives [itr, seen]
RECURSIVE queueLoop(_, _, _)
queueLoop(M, st, n) ==
    IF n <= 0 \/ QueueIterator_Done(st.itr) THEN st
    ELSE IF n = 1
    THEN With(QueueIterator_Next(M, st.itr), LAMBDA r :
           [itr |-> r.itr, seen |-> Append(st.seen, <<r.index, r.value, r.ok>>)])
    ELSE With(queueLoop(M, st, n \div 2), LAMBDA half :
           queueLoop(M, half, n - n \div 2))

\* "itr := q.Iterator(); for !itr.Done() { ... itr.Next() ... }": the entries
\* seen; the loop is cut after one round more than the queue has elements
queueEntries(M, q) ==
    queueLoop(M, [itr |-> Queue_Iterator(M, q), seen |-> <<>>], Queue_Len(q) + 1).seen

\* the program iterates over q
QueueIterate ==
    /\ mode = "queue"
    /\ last' = [op |-> "Iterate", entries |-> queueEntries(Heap, que)]
    /\ UNCHANGED <<nodes, lists, mode, pub, nsteps, bld, que, hist>>

NextQueue ==
    \/ \E n \in QueueNewLens : QueueNew(n)
    \/ QueueEnqueue
    \/ QueueDequeue
    \/ QueuePeek
    \/ QueueIterate

SpecQueue == InitQueue /\ [][NextQueue]_vars

\* C3: the values Dequeue returns are the values put in, in the order they
\* were put in and each once, and Len() is the number of values put in minus
\* the number taken out.
QueueFIFO ==
    /\ Len(hist.deq) <= Len(hist.enq)
    /\ hist.deq = SubSeq(hist.enq, 1, Len(hist.deq))
    /\ Queue_Len(que) = Len(hist.enq) - Len(hist.deq)
    /\ last.op = "Dequeue" => (last.ok <=> Len(hist.deq) > 0 /\ last.value = hist.deq[Len(hist.deq)])

\* the first Dequeue after 34 calls of Enqueue on the nil queue: the back
\* list, a trie, has been reversed into the front list
QueueFIFOWitness ==
    /\ mode = "queue" /\ hist.init = -1
    /\ Len(hist.enq) = 34 /\ Len(hist.deq) = 1
    /\ last.op = "Dequeue" /\ last.ok
    /\ rootIsTrie(que.front)

\* the values in the queue, in the order they were put in
queueRest == SubSeq(hist.enq, Len(hist.deq) + 1, Len(hist.enq))

\* C15: on an empty or nil queue Peek returns (zero, false) and Dequeue
\* returns (nil, zero, false); the nil queue has Len() = 0 and Empty() true,
\* and Enqueue(v) on it gives a queue of length 1 whose head is v.
EmptyQueueIsSafe ==
    [][(mode = "queue" /\ Queue_Len(que) = 0) =>
          /\ Queue_Empty(que)
          /\ last'.op = "Peek" => (last'.value = zeroT /\ ~last'.ok)
          /\ last'.op = "Dequeue" =>
                /\ last'.value = zeroT /\ ~last'.ok
                /\ que' = NilQueue
                /\ Queue_Len(que') = 0 /\ Queue_Empty(que')
          /\ last'.op = "Enqueue" =>
                /\ Queue_Len(que') = 1 /\ ~Queue_Empty(que')
                /\ Queue_Peek([nodes |-> nodes', lists |-> lists'], que') =
                      [value |-> nsteps', ok |-> TRUE]]_vars

\* an Enqueue on the nil queue that Dequeue gave back for a drained queue
EmptyQueueIsSafeWitness ==
    /\ mode = "queue" /\ last.op = "Enqueue" /\ last.onNil
    /\ Len(hist.deq) >= 1 /\ Queue_Len(que) = 1

\* C16: on every non-empty queue, one with an empty front list included,
\* Peek() returns ok = true and the value Dequeue() returns, and leaves the
\* length and the order of the queue as they were.
PeekIsNextDequeue ==
    [][(mode = "queue" /\ last'.op = "Peek" /\ Queue_Len(que) > 0) =>
          /\ last'.ok
          /\ Queue_Dequeue(Heap, que).ok
          /\ last'.value = Queue_Dequeue(Heap, que).value
          /\ last'.value = queueRest[1]
          /\ Queue_Len(que') = Queue_Len(que)
          /\ queueEntries([nodes |-> nodes', lists |-> lists'], que') =
                queueEntries(Heap, que)]_vars

\* a Peek at a queue whose front list is empty and whose back list is a trie
PeekIsNextDequeueWitness ==
    /\ mode = "queue" /\ last.op = "Peek" /\ last.ok
    /\ List_Len(Heap, que.front) = 0 /\ rootIsTrie(que.back)

\* C17: a full iteration of a queue yields exactly Len() elements, in the
\* order Dequeue gives them, with the indices 0, 1, ..., Len() - 1.
QueueIteratorInOrder ==
    (mode = "queue" /\ last.op = "Iterate") =>
        /\ Len(last.entries) = Queue_Len(que)
        /\ \A k \in 1..Len(last.entries) :
              last.entries[k] = <<k - 1, queueRest[k], TRUE>>

\* an iteration that went through a front list and then a back list
QueueIteratorInOrderWitness ==
    /\ mode = "queue" /\ last.op = "Iterate" /\ ~que.isNil
    /\ List_Len(Heap, que.front) >= 2 /\ List_Len(Heap, que.back) >= 2
    /\ Len(hist.deq) >= 1

(***************************************************************************)
(* The builder programs.  The program makes one builder (a ListBuilder, a  *)
(* BatchListBuilder or a QueueBuilder) and calls its methods in any order, *)
(* recovering from a panic and going on.  pub holds the lists List() has   *)
(* returned and que the queue Queue() has returned.  hist.ref is the       *)
(* reference sequence of the values put in since the builder was made or   *)
(* last Reset, hist.published says whether List() or Queue() has returned  *)
(* since then.                                                             *)
(***************************************************************************)
BatchSizes == {0, 2, 33}
EditAt == {2, 32, 33}
SliceLens == {0, 3, 33}

newBuilder(kind, batchSize) ==
    CASE kind = "ListBuilder" -> NewListBuilder(emptyHeap)
      [] kind = "BatchListBuilder" -> NewBatchListBuilder(emptyHeap, batchSize)
      [] kind = "QueueBuilder" -> NewQueueBuilder(emptyHeap)

InitBuilder ==
    /\ mode \in {"ListBuilder", "BatchListBuilder", "QueueBuilder"}
    /\ \E batchSize \in (IF mode = "BatchListBuilder" THEN BatchSizes ELSE {0}) :
         /\ nodes = newBuilder(mode, batchSize).M.nodes
         /\ lists = newBuilder(mode, batchSize).M.lists
         /\ bld = newBuilder(mode, batchSize).b
    /\ pub = <<>>
    /\ nsteps = 0
    /\ last = [op |-> "none", panic |-> noPanic]
    /\ que = NilQueue
    /\ hist = [ref |-> <<>>, published |-> FALSE, edits |-> 0, resets |-> 0, calls |-> 0]

moved(c, l) == IF l = Nil THEN Nil ELSE c.at[l]
moveQueue(c, q) == [q EXCEPT !.front = moved(c, @), !.back = moved(c, @)]
rootsOf(b) == IF mode = "QueueBuilder" THEN <<b.q.front, b.q.back>> ELSE <<b.list>>
moveBuilder(c, b) ==
    IF mode = "QueueBuilder" THEN [b EXCEPT !.q = moveQueue(c, @)]
    ELSE [b EXCEPT !.list = moved(c, @)]

\* the state after a builder call that gave r and published nothing
afterCall(r, op) ==
    /\ With(Compact(r.M, seqOf(heldLists) \o rootsOf(r.b) \o <<que.front, que.back>>),
            LAMBDA c :
              /\ setHeap(c.M)
              /\ bld' = moveBuilder(c, r.b)
              /\ pub' = movedVersions(c)
              /\ que' = moveQueue(c, que))
    /\ last' = [op |-> op, panic |-> r.panic]
    /\ UNCHANGED mode

\* the state after a call of List() that gave r
afterList(r) ==
    /\ With(Compact(r.M, Append(seqOf(heldLists), r.value) \o rootsOf(r.b)),
            LAMBDA c :
              /\ setHeap(c.M)
              /\ bld' = moveBuilder(c, r.b)
              /\ pub' = IF r.panic /= noPanic \/ r.value = Nil THEN movedVersions(c)
                        ELSE Append(movedVersions(c),
                                    Version(c.at[r.value], hist.ref, "List", 0, 0,
                                            Obs(r.M, r.value))))
    /\ last' = [op |-> "List", panic |-> r.panic]
    /\ hist' = [hist EXCEPT !.published = @ \/ r.panic = noPanic,
                            !.calls = IF mode = "BatchListBuilder" THEN @ + 1 ELSE @]
    /\ UNCHANGED <<mode, nsteps, que>>

\* the state after a read-only builder call that gave r
afterRead(r, op) ==
    /\ last' = [op |-> op, panic |-> r.panic, value |-> r.value]
    /\ UNCHANGED <<nodes, lists, mode, pub, nsteps, bld, que, hist>>

builderSize ==
    IF mode /= "ListBuilder" \/ bld.list = Nil THEN 1 ELSE List_Len(Heap, bld.list)
mayEdit == hist.edits < MaxEdits /\ (bld.list /= Nil => builderSize \in EditAt)
edited(r, ref) ==
    IF r.panic = noPanic THEN [hist EXCEPT !.ref = ref, !.edits = @ + 1] ELSE hist
putIn(r, values) ==
    IF r.panic = noPanic THEN [hist EXCEPT !.ref = @ \o values] ELSE hist

\* ---- ListBuilder program
LBAppend ==
    /\ mode = "ListBuilder" /\ nsteps < MaxAppends
    /\ With(ListBuilder_Append(Heap, bld, nsteps + 1), LAMBDA r :
         /\ afterCall(r, "Append")
         /\ hist' = putIn(r, <<nsteps + 1>>)
         /\ nsteps' = IF r.panic = noPanic THEN nsteps + 1 ELSE nsteps)

LBPrepend ==
    /\ mode = "ListBuilder" /\ mayEdit
    /\ With(ListBuilder_Prepend(Heap, bld, freshValue), LAMBDA r :
         /\ afterCall(r, "Prepend")
         /\ hist' = edited(r, RefPrepend(hist.ref, freshValue)))
    /\ UNCHANGED nsteps

LBSet(index) ==
    /\ mode = "ListBuilder" /\ mayEdit
    /\ With(ListBuilder_Set(Heap, bld, index, freshValue), LAMBDA r :
         /\ afterCall(r, "Set")
         /\ hist' = edited(r, RefSet(hist.ref, index, freshValue)))
    /\ UNCHANGED nsteps

LBSlice(start, end) ==
    /\ mode = "ListBuilder" /\ mayEdit /\ start <= end
    /\ With(ListBuilder_Slice(Heap, bld, start, end), LAMBDA r :
         /\ afterCall(r, "Slice")
         /\ hist' = edited(r, RefSlice(hist.ref, start, end)))
    /\ UNCHANGED nsteps

LBLen == mode = "ListBuilder" /\ afterRead(ListBuilder_Len(Heap, bld), "Len")
LBGet(index) ==
    mode = "ListBuilder" /\ afterRead(ListBuilder_Get(Heap, bld, index), "Get")
LBIterator ==
    mode = "ListBuilder" /\ afterRead(ListBuilder_Iterator(Heap, bld), "Iterator")
LBContains(value) ==
    mode = "ListBuilder" /\ afterRead(ListBuilder_Contains(Heap, bld, value), "Contains")
LBContainsFunc(value) ==
    mode = "ListBuilder"
    /\ afterRead(ListBuilder_ContainsFunc(Heap, bld, value), "ContainsFunc")
LBList == mode = "ListBuilder" /\ afterList(ListBuilder_List(Heap, bld))

\* ---- BatchListBuilder program
BLAppend ==
    /\ mode = "BatchListBuilder" /\ nsteps < MaxAppends /\ hist.calls < MaxCalls
    /\ With(BatchListBuilder_Append(Heap, bld, nsteps + 1), LAMBDA r :
         /\ afterCall(r, "Append")
         /\ hist' = [hist EXCEPT !.ref = Append(@, nsteps + 1), !.calls = @ + 1])
    /\ nsteps' = nsteps + 1

BLAppendSlice(n) ==
    /\ mode = "BatchListBuilder" /\ nsteps + n <= MaxAppends /\ hist.calls < MaxCalls
    /\ bld.list /= Nil
    /\ With(BatchListBuilder_AppendSlice(Heap, bld, seqOf([i \in 1..n |-> nsteps + i])),
            LAMBDA r :
         /\ afterCall(r, "AppendSlice")
         /\ hist' = [hist EXCEPT !.ref = @ \o seqOf([i \in 1..n |-> nsteps + i]),
                                 !.calls = @ + 1])
    /\ nsteps' = nsteps + n

BLFlush ==
    /\ mode = "BatchListBuilder" /\ hist.calls < MaxCalls
    /\ With(BatchListBuilder_Flush(Heap, bld), LAMBDA r :
         afterCall(r, "Flush"))
    /\ hist' = [hist EXCEPT !.calls = @ + 1]
    /\ UNCHANGED nsteps

BLReset ==
    /\ mode = "BatchListBuilder" /\ hist.resets < MaxResets /\ hist.calls < MaxCalls
    /\ With(BatchListBuilder_Reset(Heap, bld), LAMBDA r :
         afterCall(r, "Reset"))
    /\ hist' = [hist EXCEPT !.ref = <<>>, !.published = FALSE, !.resets = @ + 1,
                            !.calls = @ + 1]
    /\ UNCHANGED nsteps

BLList ==
    /\ mode = "BatchListBuilder" /\ hist.calls < MaxCalls
    /\ afterList(BatchListBuilder_List(Heap, bld))

BLLen == mode = "BatchListBuilder" /\ afterRead(BatchListBuilder_Len(Heap, bld), "Len")

\* ---- QueueBuilder program
QBEnqueue ==
    /\ mode = "QueueBuilder" /\ nsteps < MaxAppends
    /\ With(QueueBuilder_Enqueue(Heap, bld, nsteps + 1), LAMBDA r :
         /\ afterCall(r, "Enqueue")
         /\ hist' = putIn(r, <<nsteps + 1>>)
         /\ nsteps' = IF r.panic = noPanic THEN nsteps + 1 ELSE nsteps)

QBEnqueueSlice(n) ==
    /\ mode = "QueueBuilder" /\ nsteps + n <= MaxAppends
    /\ With(QueueBuilder_EnqueueSlice(Heap, bld, seqOf([i \in 1..n |-> nsteps + i])),
            LAMBDA r :
         /\ afterCall(r, "EnqueueSlice")
         /\ hist' = putIn(r, seqOf([i \in 1..n |-> nsteps + i]))
         /\ nsteps' = IF r.panic = noPanic THEN nsteps + n ELSE nsteps)

QBLen == mode = "QueueBuilder" /\ afterRead(QueueBuilder_Len(Heap, bld), "Len")

QBQueue ==
    /\ mode = "QueueBuilder"
    /\ With(QueueBuilder_Queue(Heap, bld), LAMBDA r :
         /\ With(Compact(r.M, IF r.panic = noPanic
                               THEN <<r.value.front, r.value.back>>
                               ELSE <<que.front, que.back>>),
                 LAMBDA c :
                   /\ setHeap(c.M)
                   /\ que' = moveQueue(c, IF r.panic = noPanic THEN r.value ELSE que))
         /\ bld' = r.b
         /\ last' = [op |-> "Queue", panic |-> r.panic]
         /\ hist' = IF r.panic = noPanic THEN [hist EXCEPT !.published = TRUE] ELSE hist)
    /\ UNCHANGED <<mode, pub, nsteps>>

NextBuilder ==
    \/ LBAppend
    \/ LBPrepend
    \/ \E index \in {0, builderSize - 1} : LBSet(index)
    \/ \E start \in {0, 1}, end \in {builderSize - 1, builderSize} : LBSlice(start, end)
    \/ LBLen
    \/ \E index \in {0, builderSize - 1} : LBGet(index)
    \/ LBIterator
    \/ \E value \in {0, 1} : LBContains(value)
    \/ \E value \in {0, 1} : LBContainsFunc(value)
    \/ LBList
    \/ BLAppend
    \/ \E n \in SliceLens : BLAppendSlice(n)
    \/ BLFlush
    \/ BLReset
    \/ BLList
    \/ BLLen
    \/ QBEnqueue
    \/ \E n \in SliceLens : QBEnqueueSlice(n)
    \/ QBLen
    \/ QBQueue

SpecBuilder == InitBuilder /\ [][NextBuilder]_vars

(***************************************************************************)
(* Properties of the builder programs.                                     *)
(***************************************************************************)
\* C4: every list that ListBuilder.List() or BatchListBuilder.List() has
\* returned still has the length and the elements it had when it was
\* returned, whatever the program has called on the builder since then
\* (Reset followed by Append and Flush included).
PublishedListUntouched ==
    mode \in {"ListBuilder", "BatchListBuilder"} =>
        \A i \in 1..Len(pub) : Obs(Heap, pub[i].l) = pub[i].obs

\* a list was published, the builder was Reset, and values appended after
\* that have been flushed into the builder's new list
PublishedListUntouchedWitness ==
    /\ mode = "BatchListBuilder"
    /\ Len(pub) >= 1 /\ Len(pub[1].obs) > 0
    /\ hist.resets = 1 /\ ~hist.published
    /\ last.op = "Flush" /\ last.panic = noPanic
    /\ bld.list /= Nil /\ List_Len(Heap, bld.list) > 0

\* C6: while a BatchListBuilder has not published, Len() is the number of
\* values appended so far, and the list List() returns holds exactly the
\* appended values in call order.
BatchListMatchesAppends ==
    mode = "BatchListBuilder" =>
        /\ bld.list /= Nil => BatchListBuilder_Len(Heap, bld).value = Len(hist.ref)
        /\ \A i \in 1..Len(pub) :
              /\ List_Len(Heap, pub[i].l) = Len(pub[i].ref)
              /\ \A k \in 1..Len(pub[i].ref) :
                    List_Get(Heap, pub[i].l, k - 1) = pub[i].ref[k]

\* List() has just returned a list of 34 or more values that were appended
\* with AppendSlice and Append
BatchListMatchesAppendsWitness ==
    /\ mode = "BatchListBuilder"
    /\ last.op = "List" /\ last.panic = noPanic
    /\ Len(pub) >= 1 /\ Len(pub[Len(pub)].ref) >= 34
    /\ bld.list = Nil

\* C7: every published List whose root is a slice node holds at most
\* listSliceThreshold (32) elements.
SliceRootWithinThreshold ==
    \A i \in 1..Len(pub) :
        isSlice(Heap, lists[pub[i].l].root) =>
            List_Len(Heap, pub[i].l) <= listSliceThreshold

\* C10: once ListBuilder.List() (QueueBuilder.Queue()) has returned, every
\* call on the builder panics in assert, returns nothing and changes
\* neither the builder nor any collection.
PublishedBuilderPanics ==
    [][(mode \in {"ListBuilder", "QueueBuilder"} /\ hist.published) =>
          /\ last'.panic = assertPanic
          /\ bld' = bld /\ pub' = pub /\ que' = que
          /\ nodes' = nodes /\ lists' = lists]_vars

\* Append has just been called on a ListBuilder whose List() had returned
PublishedBuilderPanicsWitness ==
    /\ mode = "ListBuilder" /\ hist.published
    /\ Len(pub) = 1 /\ Len(pub[1].obs) > 32
    /\ last.op = "Append" /\ last.panic = assertPanic

\* C11: once BatchListBuilder.List() has returned, every further call on
\* the builder other than Reset (Append, AppendSlice, Flush, Len, a second
\* List) panics instead of returning.
BatchBuilderPanicsAfterPublish ==
    [][(mode = "BatchListBuilder" /\ hist.published /\ last'.op /= "Reset") =>
          last'.panic /= noPanic]_vars

(***************************************************************************)
(* Map and SortedMap, as far as the batch builders use them.  A Map is its *)
(* size and its root: no root, an array node with its entries in storage   *)
(* order, or a hash trie, whose entries are kept here in key order.  A     *)
(* SortedMap is its entries in key order.  Keys are positive integers.     *)
(***************************************************************************)
maxArrayMapSize == 8

mapEntry(key, value) == [key |-> key, value |-> value]

nilRoot == [kind |-> "nil", entries |-> <<>>]
mapArrayNode(entries) == [kind |-> "array", entries |-> entries]
mapTrieNode(entries) == [kind |-> "trie", entries |-> entries]

\* the hashers: none (nil), the one NewHasher gives for the key type, one of
\* the caller's own whose Equal is ==, and one of the caller's own whose
\* Equal is coarser than == (it takes keys 1 and 2 for equal, 3 and 4, ...)
noHasher == "nil"
defaultHasher == "default"
customHasher == "custom"
coarseHasher == "coarse"

\* Hasher.Equal(a, b); without hasher the code compares any(a) == any(b)
Hasher_Equal(hasher, a, b) ==
    IF hasher = coarseHasher THEN (a + 1) \div 2 = (b + 1) \div 2 ELSE a = b

MapStruct(hasher, size, root) ==
    [isNil |-> FALSE, hasher |-> hasher, size |-> size, root |-> root]
NilMap == [isNil |-> TRUE, hasher |-> noHasher, size |-> 0, root |-> nilRoot]
NewMap(hasher) == MapStruct(hasher, 0, nilRoot)

\* "if m.hasher == nil { m.hasher = NewHasher(key) }"
usedHasher(m) == IF m.hasher = noHasher THEN defaultHasher ELSE m.hasher

\* the first position of key in entries, 0 when it is not there
keyIndex(entries, key) ==
    IF \E i \in 1..Len(entries) : entries[i].key = key
    THEN CHOOSE i \in 1..Len(entries) :
            entries[i].key = key /\ \A j \in 1..(i - 1) : entries[j].key /= key
    ELSE 0

\* the first position in entries of a key that hasher takes for equal to key,
\* 0 when there is none; every hasher but the coarse one takes for equal the
\* keys that are ==
keyIndexBy(hasher, entries, key) ==
    IF hasher /= coarseHasher THEN keyIndex(entries, key)
    ELSE IF \E i \in 1..Len(entries) : Hasher_Equal(hasher, entries[i].key, key)
    THEN CHOOSE i \in 1..Len(entries) :
            /\ Hasher_Equal(hasher, entries[i].key, key)
            /\ \A j \in 1..(i - 1) : ~Hasher_Equal(hasher, entries[j].key, key)
    ELSE 0

keysBelow(entries, key) ==
    LET below(e) == e.key < key IN SelectSeq(entries, below)
keysAbove(entries, key) ==
    LET above(e) == e.key > key IN SelectSeq(entries, above)

\* entries in key order with (key, value) put in, replacing the entry of key
insertByKey(entries, key, value) ==
    keysBelow(entries, key) \o <<mapEntry(key, value)>> \o keysAbove(entries, key)

replaceAt(entries, i, value) == [entries EXCEPT ![i] = mapEntry(@.key, value)]

\* Map.Len
Map_Len(m) == m.size

\* Map.Get: [value, ok]
Map_Get(m, key) ==
    IF keyIndexBy(m.hasher, m.root.entries, key) = 0 THEN [value |-> zeroT, ok |-> FALSE]
    ELSE [value |-> m.root.entries[keyIndexBy(m.hasher, m.root.entries, key)].value,
          ok |-> TRUE]

\* Map.set on an array node
mapArrayNode_set(m, key, value) ==
    IF keyIndexBy(m.hasher, m.root.entries, key) /= 0
    THEN MapStruct(m.hasher, m.size,
                   mapArrayNode(replaceAt(m.root.entries,
                                          keyIndexBy(m.hasher, m.root.entries, key), value)))
    ELSE IF Len(m.root.entries) >= maxArrayMapSize
    THEN MapStruct(m.hasher, m.size + 1, mapTrieNode(insertByKey(m.root.entries, key, value)))
    ELSE MapStruct(m.hasher, m.size + 1,
                   mapArrayNode(Append(m.root.entries, mapEntry(key, value))))

\* Map.set
Map_set(m, key, value) ==
    CASE m.root.kind = "nil" ->
           MapStruct(usedHasher(m), 1, mapArrayNode(<<mapEntry(key, value)>>))
      [] m.root.kind = "array" -> mapArrayNode_set(m, key, value)
      [] m.root.kind = "trie" ->
           IF keyIndexBy(m.hasher, m.root.entries, key) /= 0
           THEN MapStruct(m.hasher, m.size,
                          mapTrieNode(replaceAt(m.root.entries,
                                                keyIndexBy(m.hasher, m.root.entries, key),
                                                value)))
           ELSE MapStruct(m.hasher, m.size + 1,
                          mapTrieNode(insertByKey(m.root.entries, key, value)))

SortedMapStruct(entries) == [isNil |-> FALSE, entries |-> entries]
NilSortedMap == [isNil |-> TRUE, entries |-> <<>>]
NewSortedMap == SortedMapStruct(<<>>)

\* SortedMap.set
SortedMap_set(sm, key, value) == SortedMapStruct(insertByKey(sm.entries, key, value))

\* SortedMap.Len
SortedMap_Len(sm) == Len(sm.entries)

\* SortedMap.Get: [value, ok]
SortedMap_Get(sm, key) ==
    IF keyIndex(sm.entries, key) = 0 THEN [value |-> zeroT, ok |-> FALSE]
    ELSE [value |-> sm.entries[keyIndex(sm.entries, key)].value, ok |-> TRUE]

\* the keys a SortedMap iterator visits, in the order it visits them
SortedMap_keys(sm) == seqOf([i \in 1..Len(sm.entries) |-> sm.entries[i].key])

\* defaultCompare(a, b)
defaultCompare(a, b) == IF a < b THEN -1 ELSE IF a > b THEN 1 ELSE 0

(***************************************************************************)
(* BatchMapBuilder.  A call gives [b, panic, value].                       *)
(***************************************************************************)
done(b, value) == [b |-> b, panic |-> noPanic, value |-> value]
failed(b, kind) == [b |-> b, panic |-> kind, value |-> Nil]

\* NewBatchMapBuilder
NewBatchMapBuilder(hasher, batchSize) ==
    [m |-> NewMap(hasher),
     batchSize |-> IF batchSize <= 0 THEN 32 ELSE batchSize,
     buffer |-> <<>>]

\* the loops of Flush that go down the buffer from position i and keep the
\* entries whose key has not been seen, in the order they are met.  The
\* loops over a tiny buffer look for the key with the map's hasher (with ==
\* when it has none), the loop over a larger buffer looks it up in a Go map,
\* which is the case hasher = noHasher here.
RECURSIVE lastOccurrences(_, _, _, _)
lastOccurrences(hasher, buffer, i, dedup) ==
    IF i < 1 THEN dedup
    ELSE lastOccurrences(hasher, buffer, i - 1,
                         IF keyIndexBy(hasher, dedup, buffer[i].key) /= 0 THEN dedup
                         ELSE Append(dedup, buffer[i]))

\* the loop of Flush that goes up the buffer from position i and keeps the
\* entries whose key has not been seen; it looks the key up in a Go map
RECURSIVE firstOccurrences(_, _, _)
firstOccurrences(buffer, i, lastSeen) ==
    IF i > Len(buffer) THEN lastSeen
    ELSE firstOccurrences(buffer, i + 1,
                          IF keyIndex(lastSeen, buffer[i].key) /= 0 THEN lastSeen
                          ELSE Append(lastSeen, buffer[i]))

\* Flush, map without root: the entries of the array node it installs
BatchMapBuilder_dedup(hasher, buffer) ==
    IF Len(buffer) <= maxArrayMapSize
    THEN reversed(lastOccurrences(hasher, buffer, Len(buffer), <<>>))
    ELSE reversed(lastOccurrences(noHasher, buffer, Len(buffer), <<>>))

\* Flush, array node root: the staged entry of each key of the buffer
BatchMapBuilder_last(hasher, buffer) ==
    IF Len(buffer) <= maxArrayMapSize
    THEN reversed(lastOccurrences(hasher, buffer, Len(buffer), <<>>))
    ELSE firstOccurrences(buffer, 1, <<>>)

\* Flush, array node root: the copy of the node's entries with the staged
\* values written over the values of the keys they match
BatchMapBuilder_newEntries(hasher, entries, lastSeen) ==
    seqOf([i \in 1..Len(entries) |->
             IF keyIndexBy(hasher, lastSeen, entries[i].key) /= 0
             THEN mapEntry(entries[i].key,
                           lastSeen[keyIndexBy(hasher, lastSeen, entries[i].key)].value)
             ELSE entries[i]])

\* Flush, array node root: the staged entries whose key the node did not
\* have; the node's keys are looked up in a Go map
BatchMapBuilder_toAppend(entries, lastSeen) ==
    LET isNew(le) == keyIndex(entries, le.key) = 0 IN SelectSeq(lastSeen, isNew)

\* the fallback loop of Flush: set the entries of the buffer one by one
RECURSIVE BatchMapBuilder_setAll(_, _, _)
BatchMapBuilder_setAll(m, buffer, i) ==
    IF i > Len(buffer) THEN m
    ELSE BatchMapBuilder_setAll(Map_set(m, buffer[i].key, buffer[i].value), buffer, i + 1)

BatchMapBuilder_flushArray(m, buffer, newEntries, toAppend) ==
    IF Len(newEntries) + Len(toAppend) <= maxArrayMapSize
    THEN MapStruct(m.hasher, Len(newEntries) + Len(toAppend),
                   mapArrayNode(newEntries \o toAppend))
    ELSE BatchMapBuilder_setAll(m, buffer, 1)

\* the map Flush leaves in the builder
BatchMapBuilder_flushed(m, buffer) ==
    CASE m.root.kind = "nil" ->
           With(BatchMapBuilder_dedup(m.hasher, buffer), LAMBDA dedup :
             MapStruct(usedHasher(m), Len(dedup), mapArrayNode(dedup)))
      [] m.root.kind = "array" ->
           With(BatchMapBuilder_last(m.hasher, buffer), LAMBDA lastSeen :
             BatchMapBuilder_flushArray(
                 m, buffer,
                 BatchMapBuilder_newEntries(m.hasher, m.root.entries, lastSeen),
                 BatchMapBuilder_toAppend(m.root.entries, lastSeen)))
      [] OTHER -> BatchMapBuilder_setAll(m, buffer, 1)

\* BatchMapBuilder.Flush
BatchMapBuilder_Flush(b) ==
    IF Len(b.buffer) = 0 THEN done(b, Nil)
    ELSE IF b.m.isNil THEN failed(b, runtimePanic)
    ELSE done([b EXCEPT !.m = BatchMapBuilder_flushed(b.m, b.buffer), !.buffer = <<>>], Nil)

\* BatchMapBuilder.Set
BatchMapBuilder_Set(b, key, value) ==
    IF Len(b.buffer) + 1 >= b.batchSize
    THEN BatchMapBuilder_Flush([b EXCEPT !.buffer = Append(@, mapEntry(key, value))])
    ELSE done([b EXCEPT !.buffer = Append(@, mapEntry(key, value))], Nil)

\* BatchMapBuilder.SetMap: entries is the map's entries in the order range
\* gives them
RECURSIVE BatchMapBuilder_SetMap(_, _)
BatchMapBuilder_SetMap(b, entries) ==
    IF entries = <<>> THEN done(b, Nil)
    ELSE With(BatchMapBuilder_Set(b, Head(entries).key, Head(entries).value), LAMBDA r :
           IF r.panic /= noPanic THEN r ELSE BatchMapBuilder_SetMap(r.b, Tail(entries)))

\* BatchMapBuilder.Reset
BatchMapBuilder_Reset(b) ==
    done([b EXCEPT !.m = NewMap(IF b.m.isNil THEN noHasher ELSE b.m.hasher), !.buffer = <<>>],
         Nil)

\* BatchMapBuilder.Map without the assignment b.m = nil
BatchMapBuilder_Map_keep(b) ==
    IF BatchMapBuilder_Flush(b).panic /= noPanic THEN BatchMapBuilder_Flush(b)
    ELSE done(BatchMapBuilder_Flush(b).b, BatchMapBuilder_Flush(b).b.m)

\* BatchMapBuilder.Map
BatchMapBuilder_Map(b) ==
    With(BatchMapBuilder_Flush(b), LAMBDA r :
      IF r.panic /= noPanic THEN r ELSE done([r.b EXCEPT !.m = NilMap], r.b.m))

\* BatchMapBuilder.Len
BatchMapBuilder_Len(b) ==
    IF b.m.isNil THEN done(b, 0) ELSE done(b, Map_Len(b.m) + Len(b.buffer))

(***************************************************************************)
(* SortedBatchBuilder.                                                     *)
(***************************************************************************)
\* NewSortedBatchBuilder
NewSortedBatchBuilder(batchSize, maintainSort) ==
    [sm |-> NewSortedMap,
     batchSize |-> IF batchSize <= 0 THEN 32 ELSE batchSize,
     buffer |-> <<>>,
     sorted |-> maintainSort]

\* the loop of Set that looks for the position (from 0) to insert key at
RECURSIVE SortedBatchBuilder_insertIdx(_, _, _)
SortedBatchBuilder_insertIdx(buffer, key, i) ==
    IF i >= Len(buffer) THEN i
    ELSE IF defaultCompare(key, buffer[i + 1].key) <= 0 THEN i
    ELSE SortedBatchBuilder_insertIdx(buffer, key, i + 1)

insertAt(buffer, idx, entry) ==
    SubSeq(buffer, 1, idx) \o <<entry>> \o SubSeq(buffer, idx + 1, Len(buffer))

\* the loop of Flush: set the entries of the buffer one by one
RECURSIVE SortedBatchBuilder_setAll(_, _, _)
SortedBatchBuilder_setAll(sm, buffer, i) ==
    IF i > Len(buffer) THEN sm
    ELSE SortedBatchBuilder_setAll(SortedMap_set(sm, buffer[i].key, buffer[i].value),
                                   buffer, i + 1)

\* SortedBatchBuilder.Flush
SortedBatchBuilder_Flush(b) ==
    IF Len(b.buffer) = 0 THEN done(b, Nil)
    ELSE IF b.sm.isNil THEN failed(b, runtimePanic)
    ELSE done([b EXCEPT !.sm = SortedBatchBuilder_setAll(b.sm, b.buffer, 1),
                        !.buffer = <<>>], Nil)

SortedBatchBuilder_put(b, key, value) ==
    IF b.sorted /\ Len(b.buffer) > 0
    THEN [b EXCEPT !.buffer = insertAt(@, SortedBatchBuilder_insertIdx(@, key, 0),
                                       mapEntry(key, value))]
    ELSE [b EXCEPT !.buffer = Append(@, mapEntry(key, value))]

\* SortedBatchBuilder.Set
SortedBatchBuilder_Set(b, key, value) ==
    IF Len(b.buffer) + 1 >= b.batchSize
    THEN SortedBatchBuilder_Flush(SortedBatchBuilder_put(b, key, value))
    ELSE done(SortedBatchBuilder_put(b, key, value), Nil)

\* SortedBatchBuilder.SortedMap
SortedBatchBuilder_SortedMap(b) ==
    IF SortedBatchBuilder_Flush(b).panic /= noPanic THEN SortedBatchBuilder_Flush(b)
    ELSE done([SortedBatchBuilder_Flush(b).b EXCEPT !.sm = NilSortedMap],
              SortedBatchBuilder_Flush(b).b.sm)

(***************************************************************************)
(* The map builder programs.  The program makes one BatchMapBuilder or one *)
(* SortedBatchBuilder and calls its methods in any order, recovering from  *)
(* a panic and going on.  The value of a Set is the number of the call, so *)
(* no two calls set the same value.  pub holds the maps Map() and          *)
(* SortedMap() have returned, each with the reference contents at that     *)
(* time.  hist.ref is the reference: for each key the value of the last    *)
(* Set of the key since the builder was made or last Reset, 0 for a key    *)
(* that was not set.                                                       *)
(***************************************************************************)
MaxKeys == 9           \* keys of a map builder program
MaxSets == 10          \* Set calls of a BatchMapBuilder program
MaxMapCalls == 2       \* SetMap, Flush, Reset, Map and SortedMap calls of a map builder program
MaxSortedSets == 5     \* Set calls of a SortedBatchBuilder program

MapBatchSizes == {0, 2, 9}
SortedBatchSizes == {0, 3}
SortedKeyArgs == {1, 2, 3}

noneSet == zeros(MaxKeys)
keysSet(ref) == {k \in 1..Len(ref) : ref[k] /= 0}
\* a key that was not set yet (the last key when all were)
nextKey == Min2(Cardinality(keysSet(hist.ref)) + 1, MaxKeys)
KeyArgs == {1, nextKey}

RECURSIVE setIn(_, _)
setIn(ref, entries) ==
    IF entries = <<>> THEN ref
    ELSE setIn([ref EXCEPT ![Head(entries).key] = Head(entries).value], Tail(entries))

InitMapBuilder ==
    /\ mode \in {"BatchMapBuilder", "SortedBatchBuilder"}
    /\ hist = [ref |-> noneSet, published |-> FALSE, resets |-> 0, calls |-> 0]
    /\ \/ /\ mode = "BatchMapBuilder"
          /\ \E batchSize \in MapBatchSizes : bld = NewBatchMapBuilder(customHasher, batchSize)
       \/ /\ mode = "SortedBatchBuilder"
          /\ \E batchSize \in SortedBatchSizes, maintainSort \in BOOLEAN :
               bld = NewSortedBatchBuilder(batchSize, maintainSort)
    /\ nodes = <<>>
    /\ lists = <<>>
    /\ pub = <<>>
    /\ nsteps = 0
    /\ last = [op |-> "none", panic |-> noPanic]
    /\ que = NilQueue

\* the state after a map builder call that gave r and published nothing
afterMapCall(r, op) ==
    /\ bld' = r.b
    /\ last' = [op |-> op, panic |-> r.panic]
    /\ UNCHANGED <<nodes, lists, mode, pub, que>>

\* the state after a call of Map() or SortedMap() that gave r
afterMap(r, op) ==
    /\ bld' = r.b
    /\ pub' = IF r.panic /= noPanic \/ r.value.isNil THEN pub
              ELSE Append(pub, [m |-> r.value, ref |-> hist.ref])
    /\ last' = [op |-> op, panic |-> r.panic,
                isNil |-> IF r.panic /= noPanic THEN TRUE ELSE r.value.isNil]
    /\ hist' = [hist EXCEPT !.published = @ \/ r.panic = noPanic, !.calls = @ + 1]
    /\ UNCHANGED <<nodes, lists, mode, nsteps, que>>

BMSet(key) ==
    /\ mode = "BatchMapBuilder" /\ nsteps < MaxSets
    /\ afterMapCall(BatchMapBuilder_Set(bld, key, nsteps + 1), "Set")
    /\ hist' = [hist EXCEPT !.ref = setIn(@, <<mapEntry(key, nsteps + 1)>>)]
    /\ nsteps' = nsteps + 1

BMSetMap(entries) ==
    /\ mode = "BatchMapBuilder" /\ nsteps + Len(entries) <= MaxSets
    /\ hist.calls < MaxMapCalls
    /\ entries[1].key /= entries[2].key
    /\ afterMapCall(BatchMapBuilder_SetMap(bld, entries), "SetMap")
    /\ hist' = [hist EXCEPT !.ref = setIn(@, entries), !.calls = @ + 1]
    /\ nsteps' = nsteps + Len(entries)

BMFlush ==
    /\ mode = "BatchMapBuilder" /\ hist.calls < MaxMapCalls
    /\ afterMapCall(BatchMapBuilder_Flush(bld), "Flush")
    /\ hist' = [hist EXCEPT !.calls = @ + 1]
    /\ UNCHANGED nsteps

BMReset ==
    /\ mode = "BatchMapBuilder" /\ hist.resets < MaxResets /\ hist.calls < MaxMapCalls
    /\ afterMapCall(BatchMapBuilder_Reset(bld), "Reset")
    /\ hist' = [hist EXCEPT !.ref = noneSet, !.published = FALSE, !.resets = @ + 1,
                            !.calls = @ + 1]
    /\ UNCHANGED nsteps

BMMap ==
    /\ mode = "BatchMapBuilder" /\ hist.calls < MaxMapCalls
    /\ afterMap(BatchMapBuilder_Map(bld), "Map")

BMLen ==
    /\ mode = "BatchMapBuilder"
    /\ last' = [op |-> "Len", panic |-> noPanic, value |-> BatchMapBuilder_Len(bld).value]
    /\ UNCHANGED <<nodes, lists, mode, pub, nsteps, bld, que, hist>>

SBSet(key) ==
    /\ mode = "SortedBatchBuilder" /\ nsteps < MaxSortedSets
    /\ afterMapCall(SortedBatchBuilder_Set(bld, key, nsteps + 1), "Set")
    /\ hist' = [hist EXCEPT !.ref = setIn(@, <<mapEntry(key, nsteps + 1)>>)]
    /\ nsteps' = nsteps + 1

SBFlush ==
    /\ mode = "SortedBatchBuilder" /\ hist.calls < MaxMapCalls
    /\ afterMapCall(SortedBatchBuilder_Flush(bld), "Flush")
    /\ hist' = [hist EXCEPT !.calls = @ + 1]
    /\ UNCHANGED nsteps

SBSortedMap ==
    /\ mode = "SortedBatchBuilder" /\ hist.calls < MaxMapCalls
    /\ afterMap(SortedBatchBuilder_SortedMap(bld), "SortedMap")

NextMapBuilder ==
    \/ \E key \in KeyArgs : BMSet(key)
    \/ \E k1 \in KeyArgs, k2 \in KeyArgs :
          BMSetMap(<<mapEntry(k1, nsteps + 1), mapEntry(k2, nsteps + 2)>>)
    \/ BMFlush
    \/ BMReset
    \/ BMMap
    \/ BMLen
    \/ \E key \in SortedKeyArgs : SBSet(key)
    \/ SBFlush
    \/ SBSortedMap

SpecMapBuilder == InitMapBuilder /\ [][NextMapBuilder]_vars

(***************************************************************************)
(* Properties of the map builder programs.                                 *)
(***************************************************************************)
\* C5: the map Map() returns holds exactly the keys that were set, each
\* with the value of the last Set of the key.
BatchMapLastWriteWins ==
    mode = "BatchMapBuilder" =>
        \A i \in 1..Len(pub) :
            /\ Map_Len(pub[i].m) = Cardinality(keysSet(pub[i].ref))
            /\ \A key \in 1..MaxKeys :
                  /\ Map_Get(pub[i].m, key).ok <=> key \in keysSet(pub[i].ref)
                  /\ key \in keysSet(pub[i].ref) =>
                        Map_Get(pub[i].m, key).value = pub[i].ref[key]

\* C8: after every Flush, a map whose root is an array node holds at most
\* maxArrayMapSize (8) entries.
ArrayNodeWithinLimit ==
    mode = "BatchMapBuilder" =>
        /\ bld.m.root.kind = "array" => Len(bld.m.root.entries) <= maxArrayMapSize
        /\ \A i \in 1..Len(pub) :
              pub[i].m.root.kind = "array" =>
                  Len(pub[i].m.root.entries) <= maxArrayMapSize

\* C9: the sorted map SortedMap() returns holds exactly the keys that were
\* set, each with the value of the last Set of the key, and its iterator
\* visits the keys in strictly increasing order.
SortedBatchMatchesSets ==
    mode = "SortedBatchBuilder" =>
        \A i \in 1..Len(pub) :
            /\ SortedMap_Len(pub[i].m) = Cardinality(keysSet(pub[i].ref))
            /\ \A key \in 1..MaxKeys :
                  /\ SortedMap_Get(pub[i].m, key).ok <=> key \in keysSet(pub[i].ref)
                  /\ key \in keysSet(pub[i].ref) =>
                        SortedMap_Get(pub[i].m, key).value = pub[i].ref[key]
            /\ \A j \in 1..(SortedMap_Len(pub[i].m) - 1) :
                  SortedMap_keys(pub[i].m)[j] < SortedMap_keys(pub[i].m)[j + 1]

\* C12: a BatchMapBuilder hands over its map at most once: the first Map()
\* returns the flushed map and leaves the builder without a map, a second
\* Map() on the same builder returns nil, and the map the first call
\* returned stays as it was.
BatchMapHandedOverOnce ==
    [][(mode = "BatchMapBuilder" /\ last'.op = "Map") =>
          IF hist.published
          THEN /\ pub' = pub
               /\ last'.panic = noPanic => last'.isNil
               /\ Len(bld.buffer) = 0 => last'.panic = noPanic
          ELSE /\ last'.panic = noPanic /\ ~last'.isNil
               /\ bld'.m.isNil
               /\ Len(pub') = Len(pub) + 1
               /\ SubSeq(pub', 1, Len(pub)) = pub
               /\ pub'[Len(pub')].m = BatchMapBuilder_Flush(bld).b.m]_vars

\* a second Map() returned nil after the first returned a map with entries
BatchMapHandedOverOnceWitness ==
    /\ mode = "BatchMapBuilder" /\ last.op = "Map"
    /\ last.panic = noPanic /\ last.isNil
    /\ Len(pub) = 1 /\ Map_Len(pub[1].m) >= 1

\* C22: Reset(), called in any builder state, leaves the builder empty
\* (Len() = 0, nothing buffered, nothing committed), the map builder keeps
\* the hasher it was using (the program made it with a hasher of its own),
\* and the maps it produced earlier are as they were.
ResetKeepsHasher ==
    [][(mode = "BatchMapBuilder" /\ last'.op = "Reset") =>
          /\ last'.panic = noPanic
          /\ BatchMapBuilder_Len(bld').value = 0
          /\ Len(bld'.buffer) = 0 /\ ~bld'.m.isNil /\ Map_Len(bld'.m) = 0
          /\ pub' = pub
          /\ bld'.m.hasher = customHasher]_vars


(***************************************************************************)
(* StreamingListBuilder and StreamingMapBuilder: a batch builder with an   *)
(* auto-flush threshold, [builder, autoFlushSize, autoFlushEnabled].       *)
(***************************************************************************)
\* NewStreamingListBuilder: [M, b]
NewStreamingListBuilder(M, batchSize, autoFlushSize) ==
    [M |-> NewBatchListBuilder(M, batchSize).M,
     b |-> [builder |-> NewBatchListBuilder(M, batchSize).b,
            autoFlushSize |-> Max2(autoFlushSize, batchSize),
            autoFlushEnabled |-> autoFlushSize > 0]]

\* NewStreamingMapBuilder
NewStreamingMapBuilder(hasher, batchSize, autoFlushSize) ==
    [builder |-> NewBatchMapBuilder(hasher, batchSize),
     autoFlushSize |-> Max2(autoFlushSize, batchSize),
     autoFlushEnabled |-> autoFlushSize > 0]

\* StreamingListBuilder.Stream, one value received from the channel:
\* "b.Append(value); if b.autoFlushEnabled && b.Len() >= b.autoFlushSize { b.Flush() }"
StreamingListBuilder_receive(M, b, value) ==
    With(BatchListBuilder_Append(M, b.builder, value), LAMBDA a :
      IF a.panic /= noPanic THEN [a EXCEPT !.b = [b EXCEPT !.builder = a.b]]
      ELSE IF b.autoFlushEnabled /\ BatchListBuilder_Len(a.M, a.b).value >= b.autoFlushSize
      THEN With(BatchListBuilder_Flush(a.M, a.b), LAMBDA f :
             [f EXCEPT !.b = [b EXCEPT !.builder = f.b]])
      ELSE [a EXCEPT !.b = [b EXCEPT !.builder = a.b]])

\* StreamingMapBuilder.Stream, one entry received from the channel
StreamingMapBuilder_receive(b, key, value) ==
    With(BatchMapBuilder_Set(b.builder, key, value), LAMBDA a :
      IF a.panic /= noPanic THEN [a EXCEPT !.b = [b EXCEPT !.builder = a.b]]
      ELSE IF b.autoFlushEnabled /\ BatchMapBuilder_Len(a.b).value >= b.autoFlushSize
      THEN With(BatchMapBuilder_Flush(a.b), LAMBDA f :
             [f EXCEPT !.b = [b EXCEPT !.builder = f.b]])
      ELSE [a EXCEPT !.b = [b EXCEPT !.builder = a.b]])

\* the functions the program passes to Filter and Transform
filterFn(value) == value % 2 = 0
transformFn(value) == value + 100

\* "b.builder = <the builder the batch builder call r left>"
withBuilder(r, b) == [r EXCEPT !.b = [b EXCEPT !.builder = r.b]]

\* StreamingListBuilder.Append (the method of the embedded *BatchListBuilder)
StreamingListBuilder_Append(M, b, value) ==
    withBuilder(BatchListBuilder_Append(M, b.builder, value), b)

\* StreamingListBuilder.Filter
RECURSIVE StreamingListBuilder_Filter(_, _, _)
StreamingListBuilder_Filter(M, b, values) ==
    IF values = <<>> THEN returned(M, b, Nil)
    ELSE IF ~filterFn(Head(values)) THEN StreamingListBuilder_Filter(M, b, Tail(values))
    ELSE With(StreamingListBuilder_Append(M, b, Head(values)), LAMBDA a :
           IF a.panic /= noPanic THEN a
           ELSE StreamingListBuilder_Filter(a.M, a.b, Tail(values)))

\* StreamingListBuilder.Transform
RECURSIVE StreamingListBuilder_Transform(_, _, _)
StreamingListBuilder_Transform(M, b, values) ==
    IF values = <<>> THEN returned(M, b, Nil)
    ELSE With(StreamingListBuilder_Append(M, b, transformFn(Head(values))), LAMBDA a :
           IF a.panic /= noPanic THEN a
           ELSE StreamingListBuilder_Transform(a.M, a.b, Tail(values)))

\* StreamingMapBuilder.Set (the method of the embedded *BatchMapBuilder)
StreamingMapBuilder_Set(b, key, value) ==
    withBuilder(BatchMapBuilder_Set(b.builder, key, value), b)

\* StreamingMapBuilder.Filter, the function applied to the value
RECURSIVE StreamingMapBuilder_Filter(_, _)
StreamingMapBuilder_Filter(b, entries) ==
    IF entries = <<>> THEN done(b, Nil)
    ELSE IF ~filterFn(Head(entries).value) THEN StreamingMapBuilder_Filter(b, Tail(entries))
    ELSE With(StreamingMapBuilder_Set(b, Head(entries).key, Head(entries).value), LAMBDA a :
           IF a.panic /= noPanic THEN a
           ELSE StreamingMapBuilder_Filter(a.b, Tail(entries)))

\* StreamingMapBuilder.Transform, the function applied to the value
RECURSIVE StreamingMapBuilder_Transform(_, _)
StreamingMapBuilder_Transform(b, entries) ==
    IF entries = <<>> THEN done(b, Nil)
    ELSE With(StreamingMapBuilder_Set(b, Head(entries).key, transformFn(Head(entries).value)),
              LAMBDA a :
                IF a.panic /= noPanic THEN a
                ELSE StreamingMapBuilder_Transform(a.b, Tail(entries)))

\* StreamingMapBuilder.SetMany: entries is the map's entries in the order
\* range gives them
RECURSIVE StreamingMapBuilder_SetMany(_, _)
StreamingMapBuilder_SetMany(b, entries) ==
    IF entries = <<>> THEN done(b, Nil)
    ELSE With(StreamingMapBuilder_receive(b, Head(entries).key, Head(entries).value),
              LAMBDA a :
                IF a.panic /= noPanic THEN a
                ELSE StreamingMapBuilder_SetMany(a.b, Tail(entries)))

(***************************************************************************)
(* The streaming programs.  The program makes one streaming builder and    *)
(* gives it up to MaxStream values (entries with the keys 1, 2, ...): over *)
(* the channel that Stream reads, with Append or Set, or two at a time     *)
(* with Filter, Transform and SetMany.                                     *)
(***************************************************************************)
MaxStream == 3          \* values a streaming program sends

StreamBatchArgs == {-1, 0, 1, 2, 3}
StreamFlushArgs == {-1, 0, 1, 2, 3, 4, 31, 32, 33}

InitStreaming ==
    /\ mode \in {"StreamingListBuilder", "StreamingMapBuilder"}
    /\ \E batchSize \in StreamBatchArgs, autoFlushSize \in StreamFlushArgs :
          \/ /\ mode = "StreamingListBuilder"
             /\ nodes = NewStreamingListBuilder(emptyHeap, batchSize, autoFlushSize).M.nodes
             /\ lists = NewStreamingListBuilder(emptyHeap, batchSize, autoFlushSize).M.lists
             /\ bld = NewStreamingListBuilder(emptyHeap, batchSize, autoFlushSize).b
          \/ /\ mode = "StreamingMapBuilder"
             /\ nodes = <<>>
             /\ lists = <<>>
             /\ bld = NewStreamingMapBuilder(noHasher, batchSize, autoFlushSize)
    /\ pub = <<>>
    /\ nsteps = 0
    /\ last = [op |-> "none", panic |-> noPanic]
    /\ que = NilQueue
    /\ hist = <<>>

\* Stream receives the value nsteps + 1
SLReceive ==
    /\ mode = "StreamingListBuilder" /\ nsteps < MaxStream
    /\ With(StreamingListBuilder_receive(Heap, bld, nsteps + 1), LAMBDA r :
         With(Compact(r.M, <<r.b.builder.list>>), LAMBDA c :
           /\ setHeap(c.M)
           /\ bld' = [r.b EXCEPT !.builder.list = c.at[@]]
           /\ last' = [op |-> "Stream", panic |-> r.panic]))
    /\ nsteps' = nsteps + 1
    /\ UNCHANGED <<mode, pub, que, hist>>

\* Stream receives the entry (nsteps + 1, nsteps + 1)
SMReceive ==
    /\ mode = "StreamingMapBuilder" /\ nsteps < MaxStream
    /\ With(StreamingMapBuilder_receive(bld, nsteps + 1, nsteps + 1), LAMBDA r :
         /\ bld' = r.b
         /\ last' = [op |-> "Stream", panic |-> r.panic])
    /\ nsteps' = nsteps + 1
    /\ UNCHANGED <<nodes, lists, mode, pub, que, hist>>

\* the state after a call on the streaming list builder that gave r and added n values
afterListAdd(r, op, n) ==
    /\ With(Compact(r.M, <<r.b.builder.list>>), LAMBDA c :
         /\ setHeap(c.M)
         /\ bld' = [r.b EXCEPT !.builder.list = c.at[@]]
         /\ last' = [op |-> op, panic |-> r.panic])
    /\ nsteps' = nsteps + n
    /\ UNCHANGED <<mode, pub, que, hist>>

\* the state after a call on the streaming map builder that gave r and added n entries
afterMapAdd(r, op, n) ==
    /\ bld' = r.b
    /\ last' = [op |-> op, panic |-> r.panic]
    /\ nsteps' = nsteps + n
    /\ UNCHANGED <<nodes, lists, mode, pub, que, hist>>

nextTwo == <<nsteps + 1, nsteps + 2>>
nextTwoEntries == <<mapEntry(nsteps + 1, nsteps + 1), mapEntry(nsteps + 2, nsteps + 2)>>

SLAppend ==
    /\ mode = "StreamingListBuilder" /\ nsteps < MaxStream
    /\ afterListAdd(StreamingListBuilder_Append(Heap, bld, nsteps + 1), "Append", 1)

SLFilter ==
    /\ mode = "StreamingListBuilder" /\ nsteps + 2 <= MaxStream
    /\ afterListAdd(StreamingListBuilder_Filter(Heap, bld, nextTwo), "Filter", 2)

SLTransform ==
    /\ mode = "StreamingListBuilder" /\ nsteps + 2 <= MaxStream
    /\ afterListAdd(StreamingListBuilder_Transform(Heap, bld, nextTwo), "Transform", 2)

SMSet ==
    /\ mode = "StreamingMapBuilder" /\ nsteps < MaxStream
    /\ afterMapAdd(StreamingMapBuilder_Set(bld, nsteps + 1, nsteps + 1), "Set", 1)

SMFilter ==
    /\ mode = "StreamingMapBuilder" /\ nsteps + 2 <= MaxStream
    /\ afterMapAdd(StreamingMapBuilder_Filter(bld, nextTwoEntries), "Filter", 2)

SMTransform ==
    /\ mode = "StreamingMapBuilder" /\ nsteps + 2 <= MaxStream
    /\ afterMapAdd(StreamingMapBuilder_Transform(bld, nextTwoEntries), "Transform", 2)

SMSetMany(entries) ==
    /\ mode = "StreamingMapBuilder" /\ nsteps + 2 <= MaxStream
    /\ afterMapAdd(StreamingMapBuilder_SetMany(bld, entries), "SetMany", 2)

NextStreaming ==
    \/ SLReceive
    \/ SMReceive
    \/ SLAppend
    \/ SLFilter
    \/ SLTransform
    \/ SMSet
    \/ SMFilter
    \/ SMTransform
    \/ \E entries \in {nextTwoEntries, reversed(nextTwoEntries)} : SMSetMany(entries)

SpecStreaming == InitStreaming /\ [][NextStreaming]_vars

\* C20: the auto-flush threshold of a streaming builder is at least the
\* batch size its batch builder uses, also when a batchSize <= 0 was
\* replaced by 32 (stated here for the builders that have auto-flush
\* enabled, the ones that use the threshold).
ThresholdCoversBatch ==
    (mode \in {"StreamingListBuilder", "StreamingMapBuilder"} /\ bld.autoFlushEnabled) =>
        bld.autoFlushSize >= bld.builder.batchSize

\* the entries the streaming builder holds, committed and buffered: b.Len()
streamingLen ==
    IF mode = "StreamingListBuilder" THEN BatchListBuilder_Len(Heap, bld.builder).value
    ELSE BatchMapBuilder_Len(bld.builder).value

\* C21: on a streaming builder with auto-flush enabled, when an add through
\* any path (Append or Set, Filter, Transform, Stream, SetMany) has brought
\* Len() to the auto-flush threshold or above, nothing is left buffered
\* when the add returns.
AutoFlushOnEveryPath ==
    (/\ mode \in {"StreamingListBuilder", "StreamingMapBuilder"}
     /\ last.op /= "none" /\ last.panic = noPanic
     /\ bld.autoFlushEnabled /\ streamingLen >= bld.autoFlushSize) =>
        Len(bld.builder.buffer) = 0

maxBitmapIndexedSize == 16
mapHashSlices == 6          \* the hash is exhausted after six 5-bit slices

mapNode(kind) ==
    [kind |-> kind, key |-> 0, value |-> 0, keyHash |-> 0, bitmap |-> {},
     children |-> <<>>, entries |-> <<>>, count |-> 0]
mapArrayNodeAt(entries) == [mapNode("array") EXCEPT !.entries = entries]
mapValueNode(key, value, keyHash) ==
    [mapNode("value") EXCEPT !.key = key, !.value = value, !.keyHash = keyHash]
mapBitmapIndexedNode(bitmap, children) ==
    [mapNode("bitmap") EXCEPT !.bitmap = bitmap, !.children = children]
mapHashArrayNode(count, children) ==
    [mapNode("hasharray") EXCEPT !.count = count, !.children = children]
mapHashCollisionNode(keyHash, entries) ==
    [mapNode("collision") EXCEPT !.keyHash = keyHash, !.entries = entries]

\* hasher.hash(key) of the hasher the map programs use: keys 1..20 fill the
\* slots 0..19 of the root, key 21 shares the root slot of key 1 and parts
\* from it one level down, key 22 has the hash of key 1
MapKeys == 1..22
hashKey(key) == IF key <= 20 THEN key - 1 ELSE IF key = 21 THEN 32 ELSE 0

\* "(h >> (5*d)) & 0x1F"
slotIndex(keyHash, depth) == (keyHash \div (32 ^ depth)) % 32

\* the position of the child of slot in a bitmap-indexed node: the popcount
\* of the bitmap below the slot
bitmapIndex(bitmap, slot) == Cardinality({s \in bitmap : s < slot}) + 1

allocMapNode(H, node) == [H |-> Append(H, node), n |-> Len(H) + 1]

\* the node written over n when mutable, to a copy otherwise
storeMapNode(H, n, node, mutable) ==
    IF mutable THEN [H |-> [H EXCEPT ![n] = node], n |-> n] ELSE allocMapNode(H, node)

setResult(r, resized) == [H |-> r.H, n |-> r.n, resized |-> resized]

removeAt(s, i) == SubSeq(s, 1, i - 1) \o SubSeq(s, i + 1, Len(s))

\* the value node n and the entry (key, value) of another key under one
\* node that sits at depth: a collision node once the hash is exhausted,
\* else a bitmap-indexed node
RECURSIVE mapValueNode_merge(_, _, _, _, _, _)
mapValueNode_merge(H, n, depth, keyHash, key, value) ==
    IF depth >= mapHashSlices
    THEN allocMapNode(H, mapHashCollisionNode(H[n].keyHash,
                          <<mapEntry(H[n].key, H[n].value), mapEntry(key, value)>>))
    ELSE IF slotIndex(H[n].keyHash, depth) = slotIndex(keyHash, depth)
    THEN With(mapValueNode_merge(H, n, depth + 1, keyHash, key, value), LAMBDA r :
           allocMapNode(r.H, mapBitmapIndexedNode({slotIndex(keyHash, depth)}, <<r.n>>)))
    ELSE With(allocMapNode(H, mapValueNode(key, value, keyHash)), LAMBDA v :
           allocMapNode(v.H, mapBitmapIndexedNode(
               {slotIndex(H[n].keyHash, depth), slotIndex(keyHash, depth)},
               IF slotIndex(H[n].keyHash, depth) < slotIndex(keyHash, depth)
               THEN <<n, v.n>> ELSE <<v.n, n>>)))

\* the 32 child slots of the hash-array node a full bitmap-indexed node is
\* promoted to, with the new child v in its slot
promotedChildren(node, slot, v) ==
    seqOf([i \in 1..32 |->
             IF i - 1 = slot THEN v
             ELSE IF (i - 1) \in node.bitmap
             THEN node.children[bitmapIndex(node.bitmap, i - 1)]
             ELSE Nil])

\* set on the node n at depth: [H, n, resized], resized when the key is new
RECURSIVE mapNode_set(_, _, _, _, _, _, _)
mapNode_set(H, n, key, value, keyHash, depth, mutable) ==
    LET node == H[n]
        slot == slotIndex(keyHash, depth)
        idx == bitmapIndex(node.bitmap, slot)
        at == keyIndex(node.entries, key)
    IN CASE node.kind = "value" ->
              IF node.key = key
              THEN setResult(storeMapNode(H, n, mapValueNode(key, value, keyHash), mutable),
                             FALSE)
              ELSE setResult(mapValueNode_merge(H, n, depth, keyHash, key, value), TRUE)
         [] node.kind = "collision" ->
              IF at /= 0
              THEN setResult(storeMapNode(H, n,
                                 [node EXCEPT !.entries = replaceAt(@, at, value)], mutable),
                             FALSE)
              ELSE setResult(storeMapNode(H, n,
                                 [node EXCEPT !.entries = Append(@, mapEntry(key, value))],
                                 mutable),
                             TRUE)
         [] node.kind = "bitmap" ->
              IF slot \in node.bitmap
              THEN With(mapNode_set(H, node.children[idx], key, value, keyHash, depth + 1,
                                    mutable),
                        LAMBDA r :
                          setResult(storeMapNode(r.H, n, [node EXCEPT !.children[idx] = r.n],
                                                 mutable),
                                    r.resized))
              ELSE With(allocMapNode(H, mapValueNode(key, value, keyHash)), LAMBDA v :
                     IF Len(node.children) + 1 > maxBitmapIndexedSize
                     THEN setResult(allocMapNode(v.H,
                                        mapHashArrayNode(Len(node.children) + 1,
                                                         promotedChildren(node, slot, v.n))),
                                    TRUE)
                     ELSE setResult(storeMapNode(v.H, n,
                                        mapBitmapIndexedNode(node.bitmap \cup {slot},
                                            insertAt(node.children, idx - 1, v.n)),
                                        mutable),
                                    TRUE))
         [] node.kind = "hasharray" ->
              IF node.children[slot + 1] = Nil
              THEN With(allocMapNode(H, mapValueNode(key, value, keyHash)), LAMBDA v :
                     setResult(storeMapNode(v.H, n,
                                   [node EXCEPT !.children[slot + 1] = v.n, !.count = @ + 1],
                                   mutable),
                               TRUE))
              ELSE With(mapNode_set(H, node.children[slot + 1], key, value, keyHash,
                                    depth + 1, mutable),
                        LAMBDA r :
                          setResult(storeMapNode(r.H, n,
                                        [node EXCEPT !.children[slot + 1] = r.n], mutable),
                                    r.resized))

\* the promotion of a full array node: entries[lo..hi] put one by one into
\* the new root n, which nothing else refers to yet; split in halves to
\* keep the evaluation shallow
RECURSIVE mapNode_setAll(_, _, _, _, _)
mapNode_setAll(H, n, entries, lo, hi) ==
    IF lo > hi THEN [H |-> H, n |-> n]
    ELSE IF lo = hi
    THEN mapNode_set(H, n, entries[lo].key, entries[lo].value, hashKey(entries[lo].key),
                     0, TRUE)
    ELSE With(mapNode_setAll(H, n, entries, lo, (lo + hi) \div 2), LAMBDA r :
           IF r.n = Nil THEN r
           ELSE mapNode_setAll(r.H, r.n, entries, (lo + hi) \div 2 + 1, hi))

\* set on the root, an array node while the map is tiny: [H, n, resized]
mapRoot_set(H, n, key, value, mutable) ==
    LET node == H[n]
        at == keyIndex(node.entries, key)
    IN IF node.kind /= "array"
       THEN mapNode_set(H, n, key, value, hashKey(key), 0, mutable)
       ELSE IF at /= 0
       THEN setResult(storeMapNode(H, n, [node EXCEPT !.entries = replaceAt(@, at, value)],
                                   mutable),
                      FALSE)
       ELSE IF Len(node.entries) >= maxArrayMapSize
       THEN With(allocMapNode(H, mapBitmapIndexedNode({}, <<>>)), LAMBDA a :
              setResult(mapNode_setAll(a.H, a.n, Append(node.entries, mapEntry(key, value)),
                                       1, Len(node.entries) + 1),
                        TRUE))
       ELSE setResult(storeMapNode(H, n,
                          [node EXCEPT !.entries = Append(@, mapEntry(key, value))], mutable),
                      TRUE)

\* new(hasher): the empty map
NewMapAt(hasher) == MapStruct(hasher, 0, Nil)

\* set(k, v) with the mutable flag: [H, m]
Map_setIn(H, m, key, value, mutable) ==
    IF m.root = Nil
    THEN With(allocMapNode(H, mapArrayNodeAt(<<mapEntry(key, value)>>)), LAMBDA a :
           [H |-> a.H, m |-> MapStruct(usedHasher(m), 1, a.n)])
    ELSE With(mapRoot_set(H, m.root, key, value, mutable), LAMBDA r :
           [H |-> r.H,
            m |-> MapStruct(m.hasher, IF r.resized THEN m.size + 1 ELSE m.size, r.n)])

\* set(k, v) that writes into the nodes of m
Map_Set_inplace(H, m, key, value) == Map_setIn(H, m, key, value, TRUE)

\* set(k, v): a new map with (k, v)
Map_Set(H, m, key, value) == Map_setIn(H, m, key, value, FALSE)

absent == [value |-> zeroT, ok |-> FALSE]
present(value) == [value |-> value, ok |-> TRUE]

\* get on the node n at depth: [value, ok]
RECURSIVE mapNode_get(_, _, _, _, _)
mapNode_get(H, n, key, keyHash, depth) ==
    LET node == H[n]
        slot == slotIndex(keyHash, depth)
        at == keyIndex(node.entries, key)
    IN CASE node.kind = "value" -> IF node.key = key THEN present(node.value) ELSE absent
         [] node.kind \in {"array", "collision"} ->
              IF at = 0 THEN absent ELSE present(node.entries[at].value)
         [] node.kind = "bitmap" ->
              IF slot \in node.bitmap
              THEN mapNode_get(H, node.children[bitmapIndex(node.bitmap, slot)], key, keyHash,
                               depth + 1)
              ELSE absent
         [] node.kind = "hasharray" ->
              IF node.children[slot + 1] = Nil THEN absent
              ELSE mapNode_get(H, node.children[slot + 1], key, keyHash, depth + 1)

\* get(k): [value, ok]
Map_GetIn(H, m, key) ==
    IF m.root = Nil THEN absent ELSE mapNode_get(H, m.root, key, hashKey(key), 0)

\* delete on the node n at depth: [H, n, resized], n nil when nothing is
\* left of the node, resized when the key was there
RECURSIVE mapNode_delete(_, _, _, _, _, _)
mapNode_delete(H, n, key, keyHash, depth, mutable) ==
    LET node == H[n]
        slot == slotIndex(keyHash, depth)
        idx == bitmapIndex(node.bitmap, slot)
        at == keyIndex(node.entries, key)
        same == [H |-> H, n |-> n, resized |-> FALSE]
        gone == [H |-> H, n |-> Nil, resized |-> TRUE]
    IN CASE node.kind = "value" -> IF node.key = key THEN gone ELSE same
         [] node.kind = "array" ->
              IF at = 0 THEN same
              ELSE IF Len(node.entries) = 1 THEN gone
              ELSE setResult(storeMapNode(H, n, [node EXCEPT !.entries = removeAt(@, at)],
                                          mutable),
                             TRUE)
         [] node.kind = "collision" ->
              IF at = 0 THEN same
              ELSE IF Len(node.entries) = 2
              THEN setResult(allocMapNode(H,
                                 mapValueNode(node.entries[3 - at].key,
                                              node.entries[3 - at].value, node.keyHash)),
                             TRUE)
              ELSE setResult(storeMapNode(H, n, [node EXCEPT !.entries = removeAt(@, at)],
                                          mutable),
                             TRUE)
         [] node.kind = "bitmap" ->
              IF slot \notin node.bitmap THEN same
              ELSE With(mapNode_delete(H, node.children[idx], key, keyHash, depth + 1,
                                       mutable),
                        LAMBDA r :
                          IF ~r.resized THEN same
                          ELSE IF r.n = Nil /\ Len(node.children) = 1
                          THEN [H |-> r.H, n |-> Nil, resized |-> TRUE]
                          ELSE IF r.n = Nil
                          THEN setResult(storeMapNode(r.H, n,
                                             mapBitmapIndexedNode(node.bitmap \ {slot},
                                                 removeAt(node.children, idx)),
                                             mutable),
                                         TRUE)
                          ELSE setResult(storeMapNode(r.H, n,
                                             [node EXCEPT !.children[idx] = r.n], mutable),
                                         TRUE))
         [] node.kind = "hasharray" ->
              IF node.children[slot + 1] = Nil THEN same
              ELSE With(mapNode_delete(H, node.children[slot + 1], key, keyHash, depth + 1,
                                       mutable),
                        LAMBDA r :
                          IF ~r.resized THEN same
                          ELSE setResult(storeMapNode(r.H, n,
                                             [node EXCEPT !.children[slot + 1] = r.n,
                                                          !.count = IF r.n = Nil THEN @ - 1
                                                                    ELSE @],
                                             mutable),
                                         TRUE))

\* delete(k) with the mutable flag: [H, m], m itself when the key is absent
Map_deleteIn(H, m, key, mutable) ==
    IF m.root = Nil THEN [H |-> H, m |-> m]
    ELSE With(mapNode_delete(H, m.root, key, hashKey(key), 0, mutable), LAMBDA r :
           IF ~r.resized THEN [H |-> H, m |-> m]
           ELSE [H |-> r.H, m |-> MapStruct(m.hasher, m.size - 1, r.n)])

\* delete(k) that gives the map back as it is
Map_Delete_keep(H, m, key) == [H |-> H, m |-> m]

\* delete(k): a new map without k
Map_Delete(H, m, key) == Map_deleteIn(H, m, key, FALSE)

(***************************************************************************)
(* The map program.  The program makes a map of the keys 1..n by n calls   *)
(* of Set, then derives versions from the versions it holds by Set and     *)
(* Delete, while readers call Get on any version at any time (a Get        *)
(* changes nothing but last, so a Get that follows a Get is left out: it   *)
(* is the Get after the same writes).  pub holds the versions: the map,    *)
(* the reference contents (for each key its value, 0 for an absent key),   *)
(* and the call that made it from its parent.                              *)
(***************************************************************************)
MaxMapEdits == 2       \* Set and Delete calls after the map is made
MapLens == {0, 3, 8, 16, 20}
MapEditKeys == {1, 18, 21, 22}

MapVersion(m, ref, op, parent, key, value) ==
    [m |-> m, ref |-> ref, op |-> op, parent |-> parent, key |-> key, value |-> value]

MapResult(op, version, key, r) ==
    [op |-> op, panic |-> noPanic, version |-> version, key |-> key,
     value |-> r.value, ok |-> r.ok]

noKeys == seqOf([k \in MapKeys |-> 0])

InitMap ==
    /\ mode = "Map"
    /\ nodes = <<>>
    /\ lists = <<>>
    /\ pub = <<>>
    /\ nsteps = 0
    /\ last = MapResult("none", 0, 0, absent)
    /\ bld = Nil
    /\ que = NilQueue
    /\ hist = [edits |-> 0]

\* "for i := lo; i <= hi; i++ { m = m.Set(i, 100+i) }": [H, m], split in
\* halves to keep the evaluation shallow
RECURSIVE mapLoop(_, _, _, _)
mapLoop(H, m, lo, hi) ==
    IF lo > hi THEN [H |-> H, m |-> m]
    ELSE IF lo = hi THEN Map_Set(H, m, lo, 100 + lo)
    ELSE With(mapLoop(H, m, lo, (lo + hi) \div 2), LAMBDA r :
           IF r.m.root = Nil THEN r
           ELSE mapLoop(r.H, r.m, (lo + hi) \div 2 + 1, hi))

MapNew(n) ==
    /\ mode = "Map" /\ pub = <<>>
    /\ With(mapLoop(nodes, NewMapAt(noHasher), 1, n), LAMBDA r :
         /\ nodes' = r.H
         /\ pub' = <<MapVersion(r.m,
                                seqOf([k \in MapKeys |-> IF k <= n THEN 100 + k ELSE 0]),
                                "New", 0, 0, 0)>>)
    /\ last' = MapResult("New", 0, 0, absent)
    /\ UNCHANGED <<lists, mode, nsteps, bld, que, hist>>

MapSet(i, key) ==
    /\ mode = "Map" /\ i \in 1..Len(pub) /\ hist.edits < MaxMapEdits
    /\ With(Map_Set(nodes, pub[i].m, key, 200 + nsteps), LAMBDA r :
         /\ nodes' = r.H
         /\ pub' = Append(pub, MapVersion(r.m, [pub[i].ref EXCEPT ![key] = 200 + nsteps],
                                          "Set", i, key, 200 + nsteps)))
    /\ last' = MapResult("Set", i, key, absent)
    /\ nsteps' = nsteps + 1
    /\ hist' = [hist EXCEPT !.edits = @ + 1]
    /\ UNCHANGED <<lists, mode, bld, que>>

MapDelete(i, key) ==
    /\ mode = "Map" /\ i \in 1..Len(pub) /\ hist.edits < MaxMapEdits
    /\ With(Map_Delete(nodes, pub[i].m, key), LAMBDA r :
         /\ nodes' = r.H
         /\ pub' = Append(pub, MapVersion(r.m, [pub[i].ref EXCEPT ![key] = 0],
                                          "Delete", i, key, 0)))
    /\ last' = MapResult("Delete", i, key, absent)
    /\ nsteps' = nsteps + 1
    /\ hist' = [hist EXCEPT !.edits = @ + 1]
    /\ UNCHANGED <<lists, mode, bld, que>>

MapGet(i, key) ==
    /\ mode = "Map" /\ i \in 1..Len(pub) /\ last.op /= "Get"
    /\ last' = MapResult("Get", i, key, Map_GetIn(nodes, pub[i].m, key))
    /\ UNCHANGED <<nodes, lists, mode, pub, nsteps, bld, que, hist>>

NextMap ==
    \/ \E n \in MapLens : MapNew(n)
    \/ \E i \in 1..(MaxMapEdits + 1), key \in MapEditKeys : MapSet(i, key)
    \/ \E i \in 1..(MaxMapEdits + 1), key \in MapEditKeys : MapDelete(i, key)
    \/ \E i \in 1..(MaxMapEdits + 1), key \in MapEditKeys : MapGet(i, key)

SpecMap == InitMap /\ [][NextMap]_vars

\* what a caller can see of the map m in the heap H: Len and every Get
MapObs(H, m) == [len |-> Map_Len(m), get |-> [k \in MapKeys |-> Map_GetIn(H, m, k)]]

\* what a caller must see of a map whose contents are ref
RefObs(ref) ==
    [len |-> Cardinality({k \in MapKeys : ref[k] /= 0}),
     get |-> [k \in MapKeys |-> IF ref[k] = 0 THEN absent ELSE present(ref[k])]]

\* C24: m.Set(k, v) leaves every Get and Len of m, and of every other map
\* held, as it was; each version, also one of several derived independently
\* from the same map and one with hash-array nodes, shows exactly its own
\* contents; and a reader's Get on any version at any time gives that
\* version's value.
SetLeavesMapsUnchanged ==
    [][IF last'.op = "Get"
       THEN [value |-> last'.value, ok |-> last'.ok]
                = RefObs(pub[last'.version].ref).get[last'.key]
       ELSE /\ \A i \in 1..Len(pub) : MapObs(nodes', pub[i].m) = MapObs(nodes, pub[i].m)
            /\ \A i \in 1..Len(pub') : MapObs(nodes', pub'[i].m) = RefObs(pub'[i].ref)]_vars

\* two versions made by Set of different new keys from the same map, whose
\* root is a hash-array node
SetLeavesMapsUnchangedWitness ==
    /\ mode = "Map" /\ Len(pub) = 3
    /\ pub[1].m.root /= Nil /\ nodes[pub[1].m.root].kind = "hasharray"
    /\ pub[2].op = "Set" /\ pub[2].parent = 1 /\ pub[1].ref[pub[2].key] = 0
    /\ pub[3].op = "Set" /\ pub[3].parent = 1 /\ pub[1].ref[pub[3].key] = 0
    /\ pub[2].key /= pub[3].key
    /\ last.op = "Get" /\ last.version = 2 /\ last.key = pub[3].key /\ ~last.ok

\* C25: Get(Set(c, k, v), k) is (v, present); Get(Delete(c, k), k) is absent,
\* in particular for c = Set(c0, k, v); and a Set of a key the map already
\* has, so every Set of the same key after the first, leaves the size as it
\* was.
MapLaws ==
    mode = "Map" =>
      \A i \in 1..Len(pub) :
        /\ pub[i].op = "Set" =>
              /\ Map_GetIn(nodes, pub[i].m, pub[i].key) = present(pub[i].value)
              /\ Map_Len(pub[i].m) =
                    IF Map_GetIn(nodes, pub[pub[i].parent].m, pub[i].key).ok
                    THEN Map_Len(pub[pub[i].parent].m)
                    ELSE Map_Len(pub[pub[i].parent].m) + 1
        /\ pub[i].op = "Delete" => Map_GetIn(nodes, pub[i].m, pub[i].key) = absent

\* a key with the hash of another key has been set in a map of twenty keys
\* and then deleted from the result
MapLawsWitness ==
    /\ mode = "Map" /\ Len(pub) = 3 /\ Map_Len(pub[1].m) = 20
    /\ pub[2].op = "Set" /\ pub[2].parent = 1 /\ pub[2].key = 22
    /\ pub[3].op = "Delete" /\ pub[3].parent = 2 /\ pub[3].key = 22
    /\ Map_Len(pub[2].m) = 21 /\ Map_Len(pub[3].m) = 20

(***************************************************************************)
(* SortedMap as a B+tree, as the specification describes it.  A leaf holds *)
(* its entries in key order; a branch holds its children and, for each     *)
(* child, the least key under it.  A tree is the root node.                *)
(***************************************************************************)
sortedMapNodeSize == 32     \* NODE_MAX
sortedMapNodeMin == 8       \* NODE_MIN = NODE_MAX / 4

sortedMapLeafNode(entries) ==
    [kind |-> "leaf", entries |-> entries, keys |-> <<>>, children |-> <<>>]

\* the least key under a node
sortedMapNode_minKey(node) ==
    IF node.kind = "leaf" THEN node.entries[1].key ELSE node.keys[1]

sortedMapBranchNode(children) ==
    [kind |-> "branch", entries |-> <<>>,
     keys |-> seqOf([i \in 1..Len(children) |-> sortedMapNode_minKey(children[i])]),
     children |-> children]

\* the number of entries of a leaf, of children of a branch
nodeLen(node) == IF node.kind = "leaf" THEN Len(node.entries) ELSE Len(node.children)

\* the node of the kind of node with the items (entries or children) given
nodeOf(node, items) ==
    IF node.kind = "leaf" THEN sortedMapLeafNode(items) ELSE sortedMapBranchNode(items)
nodeItems(node) == IF node.kind = "leaf" THEN node.entries ELSE node.children

\* the child to descend into: the largest index whose key is <= key, the
\* first child when there is none
sortedMapBranchNode_indexOf(node, key) ==
    IF \E i \in 1..Len(node.keys) : node.keys[i] <= key
    THEN CHOOSE i \in 1..Len(node.keys) :
            /\ node.keys[i] <= key
            /\ \A j \in (i + 1)..Len(node.keys) : node.keys[j] > key
    ELSE 1

\* a node that would exceed NODE_MAX splits at the midpoint: <<node>> or
\* <<left, right>>
sortedMapNode_split(node) ==
    IF nodeLen(node) <= sortedMapNodeSize THEN <<node>>
    ELSE <<nodeOf(node, SubSeq(nodeItems(node), 1, nodeLen(node) \div 2)),
           nodeOf(node, SubSeq(nodeItems(node), nodeLen(node) \div 2 + 1, nodeLen(node)))>>

\* set on a node: the one or two nodes that take its place
RECURSIVE sortedMapNode_set(_, _, _)
sortedMapNode_set(node, key, value) ==
    IF node.kind = "leaf"
    THEN sortedMapNode_split(sortedMapLeafNode(insertByKey(node.entries, key, value)))
    ELSE LET i == sortedMapBranchNode_indexOf(node, key)
         IN With(sortedMapNode_set(node.children[i], key, value), LAMBDA r :
              sortedMapNode_split(sortedMapBranchNode(
                  SubSeq(node.children, 1, i - 1) \o r
                  \o SubSeq(node.children, i + 1, Len(node.children)))))

\* set(k, v) on the tree: a root that splits gets a new root above it
SortedMap_Set(root, key, value) ==
    With(sortedMapNode_set(root, key, value), LAMBDA r :
      IF Len(r) = 1 THEN r[1] ELSE sortedMapBranchNode(r))

\* the children of a branch whose child i fell below NODE_MIN when only a
\* child left empty is taken out
sortedMapBranchNode_rebalance_empty(children, i) ==
    IF nodeLen(children[i]) = 0
    THEN SubSeq(children, 1, i - 1) \o SubSeq(children, i + 1, Len(children))
    ELSE children

\* the children of a branch after its child i fell below NODE_MIN: child i
\* borrows one item from a sibling that stays at NODE_MIN or above, the
\* left one first, and is merged with a sibling otherwise
sortedMapBranchNode_rebalance(children, i) ==
    LET c == children[i]
        hasLeft == i > 1
        hasRight == i < Len(children)
        left == children[i - 1]
        right == children[i + 1]
        before(k) == SubSeq(children, 1, k - 1)
        after(k) == SubSeq(children, k + 1, Len(children))
    IN IF hasLeft /\ nodeLen(left) - 1 >= sortedMapNodeMin
       THEN before(i - 1)
            \o <<nodeOf(left, SubSeq(nodeItems(left), 1, nodeLen(left) - 1)),
                 nodeOf(c, <<nodeItems(left)[nodeLen(left)]>> \o nodeItems(c))>>
            \o after(i)
       ELSE IF hasRight /\ nodeLen(right) - 1 >= sortedMapNodeMin
       THEN before(i)
            \o <<nodeOf(c, Append(nodeItems(c), nodeItems(right)[1])),
                 nodeOf(right, Tail(nodeItems(right)))>>
            \o after(i + 1)
       ELSE IF hasLeft
       THEN before(i - 1) \o <<nodeOf(c, nodeItems(left) \o nodeItems(c))>> \o after(i)
       ELSE IF hasRight
       THEN before(i) \o <<nodeOf(c, nodeItems(c) \o nodeItems(right))>> \o after(i + 1)
       ELSE children

\* delete on a node: the node that takes its place, which may have fallen
\* below NODE_MIN
RECURSIVE sortedMapNode_delete(_, _)
sortedMapNode_delete(node, key) ==
    IF node.kind = "leaf"
    THEN IF keyIndex(node.entries, key) = 0 THEN node
         ELSE sortedMapLeafNode(keysBelow(node.entries, key) \o keysAbove(node.entries, key))
    ELSE LET i == sortedMapBranchNode_indexOf(node, key)
         IN With(sortedMapNode_delete(node.children[i], key), LAMBDA c :
              IF c = node.children[i] THEN node
              ELSE IF nodeLen(c) < sortedMapNodeMin
              THEN sortedMapBranchNode(sortedMapBranchNode_rebalance(
                       [node.children EXCEPT ![i] = c], i))
              ELSE sortedMapBranchNode([node.children EXCEPT ![i] = c]))

\* a root that is a branch of a single child shrinks to the child
RECURSIVE sortedMapNode_shrink(_)
sortedMapNode_shrink(root) ==
    IF root.kind = "branch" /\ Len(root.children) = 1
    THEN sortedMapNode_shrink(root.children[1])
    ELSE root

\* delete(k) on the tree
SortedMap_Delete(root, key) == sortedMapNode_shrink(sortedMapNode_delete(root, key))

\* the leaves under the children lo..hi of a branch and under a node, left
\* to right
RECURSIVE sortedMapNode_leaves(_)
RECURSIVE leavesUnder(_, _, _)
leavesUnder(children, lo, hi) ==
    IF lo > hi THEN <<>>
    ELSE IF lo = hi THEN sortedMapNode_leaves(children[lo])
    ELSE leavesUnder(children, lo, (lo + hi) \div 2)
         \o leavesUnder(children, (lo + hi) \div 2 + 1, hi)
sortedMapNode_leaves(node) ==
    IF node.kind = "leaf" THEN <<node>> ELSE leavesUnder(node.children, 1, Len(node.children))

\* the leaf a key belongs to
RECURSIVE sortedMapNode_leafOf(_, _)
sortedMapNode_leafOf(node, key) ==
    IF node.kind = "leaf" THEN node
    ELSE sortedMapNode_leafOf(node.children[sortedMapBranchNode_indexOf(node, key)], key)

(***************************************************************************)
(* The sorted map program.  The program makes a tree of the even keys      *)
(* 2..2n by n calls of Set in increasing order, deletes the lo lowest and  *)
(* the hi highest of them, and then sets and deletes keys at the low end,  *)
(* in the middle and at the high end.  bld is the root of the tree,        *)
(* hist.keys the keys a correct map holds, in increasing order.            *)
(***************************************************************************)
MaxSortedEdits == 4    \* Set and Delete calls after the tree is made
SortedShapes ==
    {<<0, 0, 0>>, <<20, 0, 0>>, <<33, 0, 0>>, <<33, 8, 9>>, <<49, 8, 0>>, <<81, 8, 9>>,
     <<545, 0, 0>>, <<545, 200, 0>>, <<545, 330, 0>>}

InitSorted ==
    /\ mode = "SortedMap"
    /\ nodes = <<>>
    /\ lists = <<>>
    /\ pub = <<>>
    /\ nsteps = 0
    /\ last = [op |-> "none", panic |-> noPanic, key |-> 0, underflow |-> FALSE]
    /\ bld = sortedMapLeafNode(<<>>)
    /\ que = NilQueue
    /\ hist = [keys |-> <<>>, made |-> FALSE, edits |-> 0]

\* "for k := lo; k <= hi; k++ { m = m.Set(2*k, k) }", split in halves to
\* keep the evaluation shallow
RECURSIVE sortedSetLoop(_, _, _)
sortedSetLoop(root, lo, hi) ==
    IF lo > hi THEN root
    ELSE IF lo = hi THEN SortedMap_Set(root, 2 * lo, lo)
    ELSE With(sortedSetLoop(root, lo, (lo + hi) \div 2), LAMBDA r :
           IF r.kind = "none" THEN r ELSE sortedSetLoop(r, (lo + hi) \div 2 + 1, hi))

\* "for k := lo; k <= hi; k++ { m = m.Delete(2*k) }"
RECURSIVE sortedDeleteLoop(_, _, _)
sortedDeleteLoop(root, lo, hi) ==
    IF lo > hi THEN root
    ELSE IF lo = hi THEN SortedMap_Delete(root, 2 * lo)
    ELSE With(sortedDeleteLoop(root, lo, (lo + hi) \div 2), LAMBDA r :
           IF r.kind = "none" THEN r ELSE sortedDeleteLoop(r, (lo + hi) \div 2 + 1, hi))

SortedNew(shape) ==
    /\ mode = "SortedMap" /\ ~hist.made
    /\ With(sortedSetLoop(bld, 1, shape[1]), LAMBDA made :
         IF made.kind = "none" THEN bld' = made
         ELSE With(sortedDeleteLoop(made, 1, shape[2]), LAMBDA cut :
                IF cut.kind = "none" THEN bld' = cut
                ELSE bld' = sortedDeleteLoop(cut, shape[1] - shape[3] + 1, shape[1])))
    /\ hist' = [hist EXCEPT !.made = TRUE,
                            !.keys = seqOf([i \in 1..(shape[1] - shape[2] - shape[3]) |->
                                                2 * (shape[2] + i)])]
    /\ last' = [op |-> "New", panic |-> noPanic, key |-> 0, underflow |-> FALSE]
    /\ UNCHANGED <<nodes, lists, mode, pub, nsteps, que>>

leastKey == hist.keys[1]
greatestKey == hist.keys[Len(hist.keys)]
middleKey == hist.keys[Len(hist.keys) \div 2 + 1]

without(keys, key) == LET other(k) == k /= key IN SelectSeq(keys, other)
withKey(keys, key) ==
    LET below(k) == k < key
        above(k) == k > key
    IN SelectSeq(keys, below) \o <<key>> \o SelectSeq(keys, above)

\* the keys the program sets next: one below all, one above all, one new in
\* the middle, and the least one again
sortedSetKeys ==
    IF hist.keys = <<>> THEN {50}
    ELSE {leastKey - 2, greatestKey + 2, middleKey + 1, leastKey}

\* the keys the program deletes next: the least, the greatest, the middle
\* one, and one the map does not hold
sortedDeleteKeys ==
    IF hist.keys = <<>> THEN {50}
    ELSE {leastKey, greatestKey, middleKey, greatestKey + 1}

SortedSet(key) ==
    /\ mode = "SortedMap" /\ hist.made /\ hist.edits < MaxSortedEdits
    /\ key \in sortedSetKeys
    /\ bld' = SortedMap_Set(bld, key, 1000 + nsteps)
    /\ hist' = [hist EXCEPT !.keys = withKey(@, key), !.edits = @ + 1]
    /\ last' = [op |-> "Set", panic |-> noPanic, key |-> key,
                underflow |-> FALSE]
    /\ nsteps' = nsteps + 1
    /\ UNCHANGED <<nodes, lists, mode, pub, que>>

SortedDelete(key) ==
    /\ mode = "SortedMap" /\ hist.made /\ hist.edits < MaxSortedEdits
    /\ key \in sortedDeleteKeys
    /\ bld' = SortedMap_Delete(bld, key)
    /\ hist' = [hist EXCEPT !.keys = without(@, key), !.edits = @ + 1]
    /\ last' = [op |-> "Delete", panic |-> noPanic, key |-> key,
                underflow |-> /\ bld.kind = "branch" /\ key /= greatestKey + 1
                              /\ Len(sortedMapNode_leafOf(bld, key).entries)
                                    = sortedMapNodeMin]
    /\ nsteps' = nsteps + 1
    /\ UNCHANGED <<nodes, lists, mode, pub, que>>

NextSorted ==
    \/ \E shape \in SortedShapes : SortedNew(shape)
    \/ \E key \in sortedSetKeys : SortedSet(key)
    \/ \E key \in sortedDeleteKeys : SortedDelete(key)

SpecSorted == InitSorted /\ [][NextSorted]_vars

\* C26: after any sequence of set and delete operations on a SortedMap with
\* node maximum 32, every leaf other than the root holds between 8 and 32
\* entries (and the root at most 32).
LeavesWithinBounds ==
    mode = "SortedMap" =>
      /\ nodeLen(bld) <= sortedMapNodeSize
      /\ bld.kind = "branch" =>
            With(sortedMapNode_leaves(bld), LAMBDA leaves :
              \A i \in 1..Len(leaves) :
                 /\ Len(leaves[i].entries) >= sortedMapNodeMin
                 /\ Len(leaves[i].entries) <= sortedMapNodeSize)

\* a Delete has taken a key from a leaf of 8 entries that is not the root
LeavesWithinBoundsWitness ==
    /\ mode = "SortedMap" /\ last.op = "Delete" /\ last.underflow
    /\ bld.kind = "branch"

(***************************************************************************)
(* The shape of the tries of the list program.                             *)
(***************************************************************************)
trieBacked(M, l) == ~isSlice(M, M.lists[l].root)

\* the indices, counted from the first slot under the root, of the leaf
\* slots found from node n through non-nil children whose occupancy bit is
\* set; base is the index of the first slot under n
RECURSIVE occupiedSlots(_, _, _)
occupiedSlots(M, n, base) ==
    IF M.nodes[n].kind = "leaf" THEN {base + i : i \in M.nodes[n].occupied}
    ELSE UNION {occupiedSlots(M, M.nodes[n].children[i + 1],
                              base + i * (2 ^ (M.nodes[n].d * listNodeBits))) :
                  i \in {j \in 0..(listNodeSize - 1) : M.nodes[n].children[j + 1] /= Nil}}

\* C27: once a list is trie-backed, every list derived from it by Set,
\* Append, Prepend or Slice is trie-backed as well, also when it has 32 or
\* fewer elements.
TrieStaysTrie ==
    [][\A i \in 1..Len(pub') :
         /\ (pub'[i].from /= 0 /\ trieBacked(Heap', pub'[pub'[i].from].l)) =>
                trieBacked(Heap', pub'[i].l)
         /\ (pub'[i].from = 0 /\ Len(pub) = 1 /\ trieBacked(Heap, pub[1].l)) =>
                trieBacked(Heap', pub'[i].l)]_vars

\* a Slice of a trie-backed list has given a list of 1 to 32 elements
TrieStaysTrieWitness ==
    \E i \in 1..Len(pub) :
       /\ pub[i].op = "Slice" /\ Len(pub[i].ref) \in 1..listSliceThreshold
       /\ trieBacked(Heap, pub[pub[i].from].l)
       /\ trieBacked(Heap, pub[i].l)

\* C28: in every trie-backed list the depth of the root is the least d with
\* 32^d >= origin + size.
DepthIsMinimal ==
    \A i \in 1..Len(pub) :
       trieBacked(Heap, pub[i].l) =>
          LET lst == lists[pub[i].l]
              d == nodeDepth(Heap, lst.root)
          IN /\ listNodeSize ^ d >= lst.origin + lst.size
             /\ d > 0 => listNodeSize ^ (d - 1) < lst.origin + lst.size

\* C29: after Slice(a, b) on a trie-backed list, a = b included, the leaf
\* slots whose occupancy bit is set are exactly those of the window
\* [origin, origin + size).
SliceClearsOutside ==
    \A i \in 1..Len(pub) :
       (pub[i].op = "Slice" /\ trieBacked(Heap, pub[i].l)) =>
          occupiedSlots(Heap, lists[pub[i].l].root, 0)
            = lists[pub[i].l].origin..(lists[pub[i].l].origin + lists[pub[i].l].size - 1)

\* the window of list l lies inside its trie: origin >= 0, origin + size is
\* at most the 32^(depth+1) slots under the root, and every index of
\* [origin, origin + size) is found through non-nil children in a leaf slot
\* whose occupancy bit is set
windowInside(M, l) ==
    LET lst == M.lists[l]
    IN /\ lst.origin >= 0
       /\ lst.origin + lst.size <= listNodeSize ^ (nodeDepth(M, lst.root) + 1)
       /\ lst.origin..(lst.origin + lst.size - 1) \subseteq occupiedSlots(M, lst.root, 0)

\* C30: at every moment of every run, in every trie-backed list origin >= 0,
\* origin + size <= 32^(depth+1), and every index of [origin, origin + size)
\* is found through non-nil children in a leaf slot whose occupancy bit is
\* set.
WindowInsideTrie ==
    [](\A i \in 1..Len(pub) : trieBacked(Heap, pub[i].l) => windowInside(Heap, pub[i].l))

\* a Prepend on a trie-backed list that Slice cut out of a trie-backed list:
\* the result is trie-backed and its window starts after slot 0
WindowInsideTrieWitness ==
    \E i \in 1..Len(pub) :
       /\ pub[i].op = "Prepend" /\ pub[i].from /= 0
       /\ pub[pub[i].from].op = "Slice"
       /\ trieBacked(Heap, pub[pub[pub[i].from].from].l)
       /\ trieBacked(Heap, pub[pub[i].from].l)
       /\ trieBacked(Heap, pub[i].l)
       /\ lists[pub[i].l].origin > 0

(***************************************************************************)
(* The twin program.  It makes a ListBuilder b and an empty List t, and    *)
(* applies every call twice: to b, which works in mutable mode, and as     *)
(* t = t.Op(...) with the immutable methods of List.  hist.twin is t,      *)
(* hist.edits counts the Prepend, Set and Slice calls.  The program ends   *)
(* with l := b.List().                                                     *)
(***************************************************************************)
MaxTwinAppends == 66    \* Append calls of a twin program
MaxTwinEdits == 2       \* Prepend, Set and Slice calls of a twin program

TwinEditAt == {2, 33, 65}

InitTwin ==
    /\ mode = "twin"
    /\ With(NewListBuilder(emptyHeap), LAMBDA r :
         With(NewList(r.M, <<>>), LAMBDA t :
           /\ nodes = t.M.nodes
           /\ lists = t.M.lists
           /\ bld = r.b
           /\ hist = [twin |-> t.l, edits |-> 0]))
    /\ pub = <<>>
    /\ nsteps = 0
    /\ last = [op |-> "none", panic |-> noPanic]
    /\ que = NilQueue

twinSize == IF bld.list = Nil THEN 0 ELSE List_Len(Heap, bld.list)
twinValue == 100 + nsteps + 100 * hist.edits
mayTwinEdit == bld.list /= Nil /\ hist.edits < MaxTwinEdits /\ twinSize \in TwinEditAt

\* the state after the builder call that gave r and the List call that gave t
afterTwin(r, t, op, edit) ==
    /\ r.panic = noPanic /\ t.l /= panicList
    /\ With(Compact(t.M, <<r.b.list, t.l>>), LAMBDA c :
         /\ setHeap(c.M)
         /\ bld' = [r.b EXCEPT !.list = c.at[@]]
         /\ hist' = [twin |-> c.at[t.l], edits |-> hist.edits + edit])
    /\ last' = [op |-> op, panic |-> r.panic]
    /\ UNCHANGED <<mode, pub, que>>

\* b.Append(v); t = t.Append(v)
TwinAppend ==
    /\ mode = "twin" /\ bld.list /= Nil /\ nsteps < MaxTwinAppends
    /\ With(ListBuilder_Append(Heap, bld, twinValue), LAMBDA r :
         afterTwin(r, List_append(r.M, hist.twin, twinValue, FALSE), "Append", 0))
    /\ nsteps' = nsteps + 1

\* b.Prepend(v); t = t.Prepend(v)
TwinPrepend ==
    /\ mode = "twin" /\ mayTwinEdit
    /\ With(ListBuilder_Prepend(Heap, bld, twinValue), LAMBDA r :
         afterTwin(r, List_prepend(r.M, hist.twin, twinValue, FALSE), "Prepend", 1))
    /\ UNCHANGED nsteps

\* b.Set(index, v); t = t.Set(index, v)
TwinSet(index) ==
    /\ mode = "twin" /\ mayTwinEdit
    /\ With(ListBuilder_Set(Heap, bld, index, twinValue), LAMBDA r :
         afterTwin(r, List_set(r.M, hist.twin, index, twinValue, FALSE), "Set", 1))
    /\ UNCHANGED nsteps

\* b.Slice(start, end); t = t.Slice(start, end)
TwinSlice(start, end) ==
    /\ mode = "twin" /\ mayTwinEdit /\ start <= end
    /\ With(ListBuilder_Slice(Heap, bld, start, end), LAMBDA r :
         afterTwin(r, List_slice(r.M, hist.twin, start, end, FALSE), "Slice", 1))
    /\ UNCHANGED nsteps

\* l := b.List()
TwinList ==
    /\ mode = "twin" /\ bld.list /= Nil
    /\ With(ListBuilder_List(Heap, bld), LAMBDA r :
         With(Compact(r.M, <<r.value, hist.twin>>), LAMBDA c :
           /\ setHeap(c.M)
           /\ bld' = r.b
           /\ pub' = <<Version(c.at[r.value], Obs(r.M, hist.twin), "List", 0, 0,
                               Obs(r.M, r.value))>>
           /\ hist' = [hist EXCEPT !.twin = c.at[@]]
           /\ last' = [op |-> "List", panic |-> r.panic]))
    /\ UNCHANGED <<mode, nsteps, que>>

NextTwin ==
    \/ TwinAppend
    \/ TwinPrepend
    \/ \E index \in {0, twinSize - 1} : TwinSet(index)
    \/ \E start \in {0, 1, 32} \cap (0..twinSize),
          end \in {0, 1, 33, twinSize - 1, twinSize} \cap (0..twinSize) :
         TwinSlice(start, end)
    \/ TwinList

SpecTwin == InitTwin /\ [][NextTwin]_vars

\* C31: the list returned by ListBuilder.List() after a sequence of Append,
\* Prepend, Set and Slice calls on the builder has the same Len and the same
\* Get(i) for every i as the list the same sequence gives with the immutable
\* methods of List.
BuilderMatchesImmutable ==
    [](mode = "twin" =>
         /\ \A i \in 1..Len(pub) :
               /\ List_Len(Heap, pub[i].l) = List_Len(Heap, hist.twin)
               /\ \A k \in 0..(List_Len(Heap, hist.twin) - 1) :
                     List_Get(Heap, pub[i].l, k) = List_Get(Heap, hist.twin, k)
         /\ bld.list /= Nil =>
               /\ ListBuilder_Len(Heap, bld).value = List_Len(Heap, hist.twin)
               /\ \A k \in 0..(List_Len(Heap, hist.twin) - 1) :
                     ListBuilder_Get(Heap, bld, k).value = List_Get(Heap, hist.twin, k))

\* List() after two calls of Prepend, Set or Slice on the builder, giving a
\* trie-backed list of 33 or more elements under a branch root
BuilderMatchesImmutableWitness ==
    /\ mode = "twin" /\ Len(pub) = 1 /\ hist.edits = 2
    /\ last.op = "List" /\ last.panic = noPanic
    /\ trieBacked(Heap, pub[1].l) /\ nodeDepth(Heap, lists[pub[1].l].root) >= 1
    /\ Len(pub[1].obs) >= 33

(***************************************************************************)
(* The conversion program.  It fills a BatchListBuilder, takes its list    *)
(* with l := b.List(), which is slice-backed whatever its length, and then *)
(* derives lists from l with l.Append(v) and l.Prepend(v).  pub[1] is l,   *)
(* hist.ref the values put into the builder.                               *)
(***************************************************************************)
MaxConvertAppends == 66     \* Append calls on the builder of a conversion program

ConvertBatchSizes == {0, 2, 33}
ConvertSliceLens == {1024, 1025}

InitConvert ==
    /\ mode = "convert"
    /\ \E batchSize \in ConvertBatchSizes :
         /\ nodes = NewBatchListBuilder(emptyHeap, batchSize).M.nodes
         /\ lists = NewBatchListBuilder(emptyHeap, batchSize).M.lists
         /\ bld = NewBatchListBuilder(emptyHeap, batchSize).b
    /\ pub = <<>>
    /\ nsteps = 0
    /\ last = [op |-> "none"]
    /\ que = NilQueue
    /\ hist = [ref |-> <<>>]

\* the state after a call on the builder that gave r, having put in values
afterConvertCall(r, op, values) ==
    /\ r.panic = noPanic
    /\ With(Compact(r.M, <<r.b.list>>), LAMBDA c :
         /\ setHeap(c.M)
         /\ bld' = [r.b EXCEPT !.list = c.at[@]])
    /\ hist' = [ref |-> hist.ref \o values]
    /\ nsteps' = nsteps + Len(values)
    /\ last' = [op |-> op]
    /\ UNCHANGED <<mode, pub, que>>

\* b.Append(v)
ConvertAppend ==
    /\ mode = "convert" /\ bld.list /= Nil /\ nsteps < MaxConvertAppends
    /\ afterConvertCall(BatchListBuilder_Append(Heap, bld, nsteps + 1), "Append",
                        <<nsteps + 1>>)

\* b.AppendSlice(values), as the first call on the builder
ConvertAppendSlice(n) ==
    /\ mode = "convert" /\ bld.list /= Nil /\ nsteps = 0
    /\ afterConvertCall(BatchListBuilder_AppendSlice(Heap, bld, Iota(n)), "AppendSlice",
                        Iota(n))

\* l := b.List()
ConvertList ==
    /\ mode = "convert" /\ bld.list /= Nil
    /\ With(BatchListBuilder_List(Heap, bld), LAMBDA r :
         /\ r.panic = noPanic
         /\ With(Compact(r.M, <<r.value>>), LAMBDA c :
              /\ setHeap(c.M)
              /\ pub' = <<Version(c.at[r.value], hist.ref, "List", 0, 0, Obs(r.M, r.value))>>)
         /\ bld' = r.b)
    /\ last' = [op |-> "List"]
    /\ UNCHANGED <<mode, nsteps, que, hist>>

\* l2 := l.Append(v)
ConvertDeriveAppend == mode = "convert" /\ pub /= <<>> /\ ListAppend(1)

\* l2 := l.Prepend(v)
ConvertDerivePrepend == mode = "convert" /\ pub /= <<>> /\ ListPrepend(1)

NextConvert ==
    \/ ConvertAppend
    \/ \E n \in ConvertSliceLens : ConvertAppendSlice(n)
    \/ ConvertList
    \/ ConvertDeriveAppend
    \/ ConvertDerivePrepend

SpecConvert == InitConvert /\ [][NextConvert]_vars

\* C32: Append or Prepend on a slice-backed list of n >= 32 elements gives a
\* list of Len n + 1 with the new value at the end (at the front for
\* Prepend) and the n old elements in their order.
ConversionKeepsElements ==
    mode = "convert" =>
      \A i \in 2..Len(pub) :
         LET parent == pub[pub[i].from]
             n == Len(parent.ref)
         IN (isSlice(Heap, lists[parent.l].root) /\ n >= listSliceThreshold) =>
              /\ List_Len(Heap, pub[i].l) = n + 1
              /\ pub[i].op = "Append" =>
                    /\ List_Get(Heap, pub[i].l, n) = pub[i].arg
                    /\ \A k \in 0..(n - 1) : List_Get(Heap, pub[i].l, k) = parent.ref[k + 1]
              /\ pub[i].op = "Prepend" =>
                    /\ List_Get(Heap, pub[i].l, 0) = pub[i].arg
                    /\ \A k \in 0..(n - 1) :
                          List_Get(Heap, pub[i].l, k + 1) = parent.ref[k + 1]

\* a slice-backed list of 1025 elements, and the lists an Append and a
\* Prepend on it have given
ConversionKeepsElementsWitness ==
    /\ mode = "convert" /\ Len(pub) = 3
    /\ isSlice(Heap, lists[pub[1].l].root) /\ Len(pub[1].ref) = 1025
    /\ pub[2].op = "Append" /\ pub[3].op = "Prepend"
    /\ trieBacked(Heap, pub[2].l) /\ trieBacked(Heap, pub[3].l)

(***************************************************************************)
(* The shape of the queues of the queue and builder programs.              *)
(***************************************************************************)
listLen(M, l) == IF l = Nil THEN 0 ELSE List_Len(M, l)

\* size = front.Len() + back.Len() and size >= 0, for a queue that is not nil
queueSized(M, q) ==
    q /= NilQueue => (q.size = listLen(M, q.front) + listLen(M, q.back) /\ q.size >= 0)

\* the elements of q from head to tail: front, then back reversed
queueOrder(M, q) ==
    IF q = NilQueue THEN <<>>
    ELSE (IF q.front = Nil THEN <<>> ELSE Obs(M, q.front))
            \o (IF q.back = Nil THEN <<>> ELSE reversed(Obs(M, q.back)))

DequeueNormalizes ==
    [][(mode = "queue" /\ last'.op = "Dequeue" /\ last'.ok) =>
          /\ Queue_Len(que') = Queue_Len(que) - 1
          /\ queueOrder(Heap', que') = Tail(queueOrder(Heap, que))
          /\ Queue_Len(que') > 0 =>
                /\ List_Len(Heap', que'.front) > 0
                /\ (List_Len(Heap, que.front) <= 1 /\ List_Len(Heap, que.back) > 0) =>
                      /\ List_Len(Heap', que'.back) = 0
                      /\ Obs(Heap', que'.front) = Tail(queueOrder(Heap, que))]_vars

\* the second Dequeue on NewQueue(1, 2) after further calls of Enqueue: it
\* took the last element of the front list, and the back list became the
\* front list
DequeueNormalizesWitness ==
    /\ mode = "queue" /\ hist.init = 2 /\ Len(hist.deq) = 2 /\ Len(hist.enq) >= 4
    /\ last.op = "Dequeue" /\ last.ok
    /\ List_Len(Heap, que.front) = Len(hist.enq) - 2
    /\ List_Len(Heap, que.back) = 0

(***************************************************************************)
(* The order of the entries a flush of the BatchMapBuilder keeps.          *)
(***************************************************************************)
\* the value of the last entry of key in buffer
lastValueOf(buffer, key) ==
    buffer[CHOOSE i \in 1..Len(buffer) :
              buffer[i].key = key /\ \A j \in (i + 1)..Len(buffer) : buffer[j].key /= key].value

\* the keys of buffer in the order they are first met, each with the value
\* it was last given
firstSeenLastValue(buffer) ==
    seqOf([i \in 1..Len(firstOccurrences(buffer, 1, <<>>)) |->
             mapEntry(firstOccurrences(buffer, 1, <<>>)[i].key,
                      lastValueOf(buffer, firstOccurrences(buffer, 1, <<>>)[i].key))])

hasRepeatedKey(buffer) ==
    \E i \in 1..Len(buffer), j \in 1..Len(buffer) : i < j /\ buffer[i].key = buffer[j].key

\* C35: a Flush() of a buffer with repeated keys that installs an array
\* node stores the retained entries in the order their keys were first seen
\* in the buffer, each with its last-written value: on a map without root
\* the node is exactly these entries, on an array node root they follow the
\* node's own entries in this order.
FlushKeepsFirstSeenOrder ==
    [][(/\ mode = "BatchMapBuilder" /\ last'.op = "Flush" /\ last'.panic = noPanic
        /\ hasRepeatedKey(bld.buffer)
        /\ bld.m.root.kind \in {"nil", "array"}
        /\ bld'.m.root.kind = "array") =>
          IF bld.m.root.kind = "nil"
          THEN bld'.m.root.entries = firstSeenLastValue(bld.buffer)
          ELSE SubSeq(bld'.m.root.entries, Len(bld.m.root.entries) + 1,
                      Len(bld'.m.root.entries))
                 = BatchMapBuilder_toAppend(bld.m.root.entries,
                                            firstSeenLastValue(bld.buffer))]_vars

(***************************************************************************)
(* The BatchMapBuilder program with a hasher whose Equal is coarser than   *)
(* ==: the program of SpecMapBuilder, the builder made with such a hasher. *)
(***************************************************************************)
InitCoarse ==
    /\ mode = "BatchMapBuilder"
    /\ hist = [ref |-> noneSet, published |-> FALSE, resets |-> 0, calls |-> 0]
    /\ \E batchSize \in MapBatchSizes : bld = NewBatchMapBuilder(coarseHasher, batchSize)
    /\ nodes = <<>>
    /\ lists = <<>>
    /\ pub = <<>>
    /\ nsteps = 0
    /\ last = [op |-> "none", panic |-> noPanic]
    /\ que = NilQueue

NextCoarse ==
    \/ \E key \in KeyArgs : BMSet(key)
    \/ \E k1 \in KeyArgs, k2 \in KeyArgs :
          BMSetMap(<<mapEntry(k1, nsteps + 1), mapEntry(k2, nsteps + 2)>>)
    \/ BMFlush
    \/ BMReset
    \/ BMMap
    \/ BMLen

SpecCoarse == InitCoarse /\ [][NextCoarse]_vars

\* the keys of entries are pairwise unequal for the hasher of m
keysDistinct(m, entries) ==
    \A i \in 1..Len(entries), j \in 1..Len(entries) :
        i < j => ~Hasher_Equal(m.hasher, entries[i].key, entries[j].key)

\* the number of keys among those of entries that the hasher of m tells apart
distinctKeys(m, entries) ==
    Cardinality({keyIndexBy(m.hasher, entries, entries[i].key) : i \in 1..Len(entries)})

\* C36: after a flush no two entries of the array node the builder's map has
\* for root have keys that are equal under the map's Hasher.Equal, and the
\* size of the map is the number of these keys; so it is too for a hasher
\* whose Equal is coarser than ==.
FlushKeysByHasherEqual ==
    (mode = "BatchMapBuilder" /\ bld.buffer = <<>> /\ bld.m.root.kind = "array") =>
        /\ keysDistinct(bld.m, bld.m.root.entries)
        /\ bld.m.size = distinctKeys(bld.m, bld.m.root.entries)

(***************************************************************************)
(* The caller program.  The caller has a slice values = {1, ..., n}, makes *)
(* l := NewList(values...) and q := NewQueueOf(values) from it, then       *)
(* writes into its slice, and then reads the list and the queue and takes  *)
(* values out of the queue.  A write into the caller's slice is a write    *)
(* into every slice over the same array: hist.listAliased and              *)
(* hist.queueAliased tell whether the root node of l and of the front list *)
(* of q hold such a slice.  hist.values is the caller's slice now,         *)
(* hist.given what it held when l and q were made, hist.deq the values     *)
(* taken out of q.                                                         *)
(***************************************************************************)
MaxWrites == 2         \* writes of the caller into its slice
CallerLens == {2, 33}

InitCaller ==
    /\ nodes = <<>>
    /\ lists = <<>>
    /\ mode = "caller"
    /\ pub = <<>>
    /\ nsteps = 0
    /\ last = [op |-> "none"]
    /\ bld = 0
    /\ que = NilQueue
    /\ hist = [values |-> <<>>, given |-> <<>>, listAliased |-> FALSE,
               queueAliased |-> FALSE, writes |-> 0, deq |-> <<>>]

\* the caller's list and queue after a call, the heaps compacted to what the
\* two reach
holdBoth(M, l, q) ==
    IF q = NilQueue
    THEN With(Compact(M, <<l>>), LAMBDA c :
           setHeap(c.M) /\ pub' = <<[l |-> c.at[l]]>> /\ que' = NilQueue)
    ELSE With(Compact(M, <<l, q.front, q.back>>), LAMBDA c :
           /\ setHeap(c.M)
           /\ pub' = <<[l |-> c.at[l]]>>
           /\ que' = QueueStruct(c.at[q.front], c.at[q.back], q.size))

\* values := []T{1, ..., n}; l := NewList(values...); q := NewQueueOf(values)
CallerConstruct(n) ==
    /\ mode = "caller" /\ last.op = "none"
    /\ With(NewList(Heap, Iota(n)), LAMBDA rl :
         With(NewQueueOf(rl.M, Iota(n)), LAMBDA rq :
           /\ holdBoth(rq.M, rl.l, rq.q)
           /\ hist' = [values |-> Iota(n), given |-> Iota(n),
                       listAliased |-> rl.aliased, queueAliased |-> rq.aliased,
                       writes |-> 0, deq |-> <<>>]))
    /\ last' = [op |-> "Construct"]
    /\ UNCHANGED <<mode, nsteps, bld>>

\* the nodes after a write of v at position i (from 1) of the slice node n holds
writeThrough(ns, n, i, v) == [ns EXCEPT ![n].elements[i] = v]

\* values[i-1] = v, before any value is taken out of q
CallerWrite(i) ==
    /\ mode = "caller" /\ last.op /= "none"
    /\ hist.writes < MaxWrites /\ hist.deq = <<>>
    /\ LET v == 100 + hist.writes
           inList == IF hist.listAliased
                     THEN writeThrough(nodes, lists[pub[1].l].root, i, v) ELSE nodes
       IN /\ nodes' = IF hist.queueAliased
                      THEN writeThrough(inList, lists[que.front].root, i, v) ELSE inList
          /\ hist' = [hist EXCEPT !.values[i] = v, !.writes = @ + 1]
          /\ last' = [op |-> "Write", index |-> i - 1, value |-> v]
    /\ UNCHANGED <<lists, mode, pub, nsteps, bld, que>>

\* v := l.Get(index)
CallerGet(index) ==
    /\ mode = "caller" /\ last.op /= "none"
    /\ last' = [op |-> "Get", index |-> index, value |-> List_Get(Heap, pub[1].l, index)]
    /\ UNCHANGED <<nodes, lists, mode, pub, nsteps, bld, que, hist>>

\* v, ok := q.Peek()
CallerPeek ==
    /\ mode = "caller" /\ last.op /= "none"
    /\ With(Queue_Peek(Heap, que), LAMBDA r :
         last' = [op |-> "Peek", value |-> r.value, ok |-> r.ok])
    /\ UNCHANGED <<nodes, lists, mode, pub, nsteps, bld, que, hist>>

\* the caller iterates over q
CallerIterate ==
    /\ mode = "caller" /\ last.op /= "none"
    /\ last' = [op |-> "Iterate", entries |-> queueEntries(Heap, que)]
    /\ UNCHANGED <<nodes, lists, mode, pub, nsteps, bld, que, hist>>

\* q, v, ok = q.Dequeue()
CallerDequeue ==
    /\ mode = "caller" /\ last.op /= "none"
    /\ With(Queue_Dequeue(Heap, que), LAMBDA r :
         /\ holdBoth(r.M, pub[1].l, r.next)
         /\ hist' = IF r.ok THEN [hist EXCEPT !.deq = Append(@, r.value)] ELSE hist
         /\ last' = [op |-> "Dequeue", value |-> r.value, ok |-> r.ok])
    /\ UNCHANGED <<mode, nsteps, bld>>

NextCaller ==
    \/ \E n \in CallerLens : CallerConstruct(n)
    \/ \E i \in {1, Len(hist.values)} : CallerWrite(i)
    \/ \E index \in {0, Len(hist.given) - 1} : CallerGet(index)
    \/ CallerPeek
    \/ CallerIterate
    \/ CallerDequeue

SpecCaller == InitCaller /\ [][NextCaller]_vars

\* the values an iteration over q gives, in the order it gives them
iterated(M, q) ==
    seqOf([k \in 1..Len(queueEntries(M, q)) |-> queueEntries(M, q)[k][2]])

\* C37: whatever the caller writes into its slice after NewList(values...)
\* and NewQueueOf(values), every Get(i) of the list is the value the slice
\* held at position i when the list was made, and the values taken out of
\* the queue, followed by the values Peek and an iteration give, are the
\* values the slice held when the queue was made, in order.
ConstructorsCopyInput ==
    (mode = "caller" /\ last.op /= "none") =>
        /\ List_Len(Heap, pub[1].l) = Len(hist.given)
        /\ \A i \in 0..(Len(hist.given) - 1) :
              List_Get(Heap, pub[1].l, i) = hist.given[i + 1]
        /\ hist.deq \o iterated(Heap, que) = hist.given
        /\ Queue_Peek(Heap, que).ok <=> Len(hist.deq) < Len(hist.given)
        /\ Queue_Peek(Heap, que).ok =>
              Queue_Peek(Heap, que).value = hist.given[Len(hist.deq) + 1]

\* the caller has overwritten the first value of a slice of two values, from
\* which a slice-backed list was made, and has then taken the first value
\* out of the queue
ConstructorsCopyInputWitness ==
    /\ mode = "caller"
    /\ Len(hist.given) = 2
    /\ isSlice(Heap, lists[pub[1].l].root)
    /\ hist.values[1] /= hist.given[1]
    /\ last.op = "Dequeue" /\ last.ok /\ last.value = hist.given[1]
    /\ List_Get(Heap, pub[1].l, 0) = hist.given[1]

(***************************************************************************)
(* The shared reference program.  Four goroutines update one shared        *)
(* reference `shared` (the variable que) to a queue that starts as         *)
(* NewQueue(1, 2): goroutines 1 and 2 each enqueue one value (11 and 12),  *)
(* goroutines 3 and 4 each dequeue one value.  A goroutine loads the       *)
(* reference and calls Enqueue or Dequeue on the queue it has loaded,      *)
(* which only reads that queue and allocates, and in a later step it       *)
(* stores the result into the reference.  The program runs the goroutines  *)
(* twice: first with no synchronization of the reference update, and then, *)
(* from a new NewQueue(1, 2), with the update under a mutex or done by     *)
(* compare-and-swap with retry.  bld[g] is what goroutine g holds;         *)
(* hist.sync is the discipline of the run, hist.stored the values whose    *)
(* Enqueue result was stored, hist.dup and hist.lost what the first run    *)
(* ended with.                                                             *)
(***************************************************************************)
Producers == {1, 2}
Consumers == {3, 4}
Goroutines == Producers \cup Consumers

atStart == [pc |-> "start", snap |-> NilQueue, next |-> NilQueue, value |-> 0, ok |-> FALSE]
allAtStart == [g \in 1..Cardinality(Goroutines) |-> atStart]

\* the values the consumers have got
gotBy(locals) ==
    LET got(g) == locals[g].pc = "done" /\ locals[g].ok
    IN SelectSeq(seqOf([g \in 1..Len(locals) |-> g]), LAMBDA g : g \in Consumers /\ got(g))
valuesGot(locals) == seqOf([k \in 1..Len(gotBy(locals)) |-> locals[gotBy(locals)[k]].value])

\* two consumers have got the same value
duplicateHead(locals) ==
    \E g \in Consumers, h \in Consumers :
        /\ g < h
        /\ locals[g].pc = "done" /\ locals[g].ok
        /\ locals[h].pc = "done" /\ locals[h].ok
        /\ locals[g].value = locals[h].value

inSeq(s, v) == \E k \in 1..Len(s) : s[k] = v

\* a value whose Enqueue result was stored is neither in the queue nor with
\* a consumer
lostEnqueue(M, q, locals, stored) ==
    \E v \in stored : ~inSeq(queueOrder(M, q), v) /\ ~inSeq(valuesGot(locals), v)

\* atomic.CompareAndSwapPointer that swaps whatever the reference holds
compareAndSwap_always(ref, old, new) == [ref |-> new, swapped |-> TRUE]

\* atomic.CompareAndSwapPointer(&shared, old, new): [ref, swapped].  A queue
\* struct here stands for the pointer to it: every Enqueue and Dequeue
\* allocates a list of its own, so no two queues made have the same lists.
compareAndSwap(ref, old, new) ==
    IF ref = old THEN [ref |-> new, swapped |-> TRUE] ELSE [ref |-> ref, swapped |-> FALSE]

InitShared ==
    /\ mode = "shared"
    /\ LET r == NewQueue(emptyHeap, <<1, 2>>)
       IN nodes = r.M.nodes /\ lists = r.M.lists /\ que = r.q
    /\ bld = allAtStart
    /\ hist = [sync |-> "none", stored |-> {}, dup |-> FALSE, lost |-> FALSE,
               retried |-> FALSE]
    /\ pub = <<>>
    /\ nsteps = 0
    /\ last = [op |-> "none"]

\* the lists the reference q and the goroutines hold
sharedRoots(q, locals) ==
    (IF q = NilQueue THEN <<>> ELSE <<q.front, q.back>>)
      \o seqOf([k \in 1..(4 * Len(locals)) |->
                  LET held == locals[(k + 3) \div 4]
                  IN CASE k % 4 = 1 -> held.snap.front
                       [] k % 4 = 2 -> held.snap.back
                       [] k % 4 = 3 -> held.next.front
                       [] OTHER -> held.next.back])

movedQueue(c, q) ==
    IF q = NilQueue THEN NilQueue ELSE QueueStruct(c.at[q.front], c.at[q.back], q.size)

\* the reference and the goroutines after a step, the heaps compacted to
\* what they reach
holdShared(M, q, locals) ==
    With(Compact(M, sharedRoots(q, locals)), LAMBDA c :
      /\ setHeap(c.M)
      /\ que' = movedQueue(c, q)
      /\ bld' = [g \in 1..Len(locals) |->
                   [locals[g] EXCEPT !.snap = movedQueue(c, @), !.next = movedQueue(c, @)]])

\* under the mutex a goroutine loads the reference only when no other
\* goroutine is between its load and its store
mayLoad(g) ==
    hist.sync = "mutex" => \A h \in Goroutines : bld[h].pc /= "computed"

\* cur := shared; next := cur.Enqueue(v)
SharedEnqueue(g) ==
    /\ mode = "shared" /\ g \in Producers
    /\ bld[g].pc = "start" /\ mayLoad(g)
    /\ With(Queue_Enqueue(Heap, que, 10 + g), LAMBDA r :
         holdShared(r.M, que,
                    [bld EXCEPT ![g] = [pc |-> "computed", snap |-> que, next |-> r.q,
                                        value |-> 10 + g, ok |-> TRUE]]))
    /\ last' = [op |-> "Enqueue"]
    /\ UNCHANGED <<mode, pub, nsteps, hist>>

\* cur := shared; next, v, ok := cur.Dequeue(); without a value the goroutine
\* stores nothing
SharedDequeue(g) ==
    /\ mode = "shared" /\ g \in Consumers
    /\ bld[g].pc = "start" /\ mayLoad(g)
    /\ With(Queue_Dequeue(Heap, que), LAMBDA r :
         holdShared(r.M, que,
                    [bld EXCEPT ![g] = IF r.ok
                                       THEN [pc |-> "computed", snap |-> que, next |-> r.next,
                                             value |-> r.value, ok |-> TRUE]
                                       ELSE [atStart EXCEPT !.pc = "done"]]))
    /\ last' = [op |-> "Dequeue"]
    /\ UNCHANGED <<mode, pub, nsteps, hist>>

\* what the goroutine holds when its result is stored
afterStore(held) == [held EXCEPT !.pc = "done", !.snap = NilQueue, !.next = NilQueue]

storedBy(g) == IF g \in Producers THEN hist.stored \cup {bld[g].value} ELSE hist.stored

\* shared = next, with no synchronization or before the mutex is unlocked
SharedStore(g) ==
    /\ mode = "shared" /\ hist.sync \in {"none", "mutex"}
    /\ bld[g].pc = "computed"
    /\ holdShared(Heap, bld[g].next, [bld EXCEPT ![g] = afterStore(@)])
    /\ hist' = [hist EXCEPT !.stored = storedBy(g)]
    /\ last' = [op |-> "Store"]
    /\ UNCHANGED <<mode, pub, nsteps>>

\* if !atomic.CompareAndSwapPointer(&shared, cur, next) { retry }
SharedCAS(g) ==
    /\ mode = "shared" /\ hist.sync = "cas"
    /\ bld[g].pc = "computed"
    /\ With(compareAndSwap(que, bld[g].snap, bld[g].next), LAMBDA r :
         /\ holdShared(Heap, r.ref,
                       [bld EXCEPT ![g] = IF r.swapped THEN afterStore(@) ELSE atStart])
         /\ hist' = IF r.swapped THEN [hist EXCEPT !.stored = storedBy(g)]
                    ELSE [hist EXCEPT !.retried = TRUE])
    /\ last' = [op |-> "CompareAndSwap"]
    /\ UNCHANGED <<mode, pub, nsteps>>

\* the goroutines of the first run are done: the program notes what the run
\* ended with and runs them again, the reference update synchronized
SharedAgain(sync) ==
    /\ mode = "shared" /\ hist.sync = "none"
    /\ \A g \in Goroutines : bld[g].pc = "done"
    /\ With(NewQueue(emptyHeap, <<1, 2>>), LAMBDA r : holdShared(r.M, r.q, allAtStart))
    /\ hist' = [sync |-> sync, stored |-> {}, retried |-> FALSE,
                dup |-> duplicateHead(bld),
                lost |-> lostEnqueue(Heap, que, bld, hist.stored)]
    /\ last' = [op |-> "Again"]
    /\ UNCHANGED <<mode, pub, nsteps>>

NextShared ==
    \/ \E g \in Goroutines : SharedEnqueue(g)
    \/ \E g \in Goroutines : SharedDequeue(g)
    \/ \E g \in Goroutines : SharedStore(g)
    \/ \E g \in Goroutines : SharedCAS(g)
    \/ \E sync \in {"mutex", "cas"} : SharedAgain(sync)

SpecShared == InitShared /\ [][NextShared]_vars

\* s has no value twice
noRepeat(s) == \A i \in 1..Len(s), j \in 1..Len(s) : i < j => s[i] /= s[j]

valuesOf(s) == {s[k] : k \in 1..Len(s)}

\* C38: with the reference update under a mutex or done by compare-and-swap
\* with retry, no value is taken out twice and none is lost: the values the
\* consumers have got and the values in the queue, none of them twice, are
\* the two values the queue started with and the values whose Enqueue was
\* stored, and once all goroutines are done these are all the values
\* enqueued.  (Without synchronization two consumers can get the same head
\* and an enqueue can be lost: the witness is a state of a program whose
\* unsynchronized run has ended with both.)
AtomicUpdateExactlyOnce ==
    (mode = "shared" /\ hist.sync \in {"mutex", "cas"}) =>
        /\ noRepeat(valuesGot(bld) \o queueOrder(Heap, que))
        /\ valuesOf(valuesGot(bld) \o queueOrder(Heap, que)) = {1, 2} \cup hist.stored
        /\ ~duplicateHead(bld)
        /\ ~lostEnqueue(Heap, que, bld, hist.stored)
        /\ (\A g \in Goroutines : bld[g].pc = "done") =>
              /\ hist.stored = {10 + g : g \in Producers}
              /\ valuesGot(bld) = <<1, 2>> \/ valuesGot(bld) = <<2, 1>>

\* the unsynchronized run has ended with two consumers holding the same
\* head and with a lost enqueue; the run with compare-and-swap, in which a
\* compare-and-swap has failed and was retried, is done
AtomicUpdateExactlyOnceWitness ==
    /\ mode = "shared" /\ hist.sync = "cas"
    /\ hist.dup /\ hist.lost /\ hist.retried
    /\ \A g \in Goroutines : bld[g].pc = "done"
    /\ Len(valuesGot(bld)) = 2

====
